---------------------------- MODULE Spec2Model ----------------------------
(* Verification model of the BotArmy orchestration fabric:                 *)
(*   - worker runtime   : worker/manager.py, worker/agent_loop.py          *)
(*   - event stream     : worker/client.py (BackendClient.stream_events)   *)
(*   - control plane    : main.py (worker_event_stream), api/workers.py,   *)
(*                        db/conversations.py                              *)
(* Every process is a cooperative asyncio event loop: the code between two *)
(* real suspension points runs atomically and is one action here.          *)
(* asyncio.Queue() is created without maxsize (manager.py:32), so          *)
(* `await queue.put()` never suspends; the suspension points of an agent   *)
(* task are the LLM call and a tool that does asynchronous I/O.            *)
EXTENDS Integers, Sequences, FiniteSets, TLC

(***************************************************************************)
(* Bounds                                                                  *)
(***************************************************************************)
MaxUniverses == 1
MaxAgents == 2
MaxTurns == 2
MaxIters == 2
MaxTools == 1
MaxEvents == 3
MaxSendFailures == 2
MaxWorkers == 2
MaxTokens == 2
MaxDetails == 2
MaxCapacity == 2
MaxDispatch == 2
MaxSweeps == 1
MaxClock == 4
MaxClients == 2
MaxCalls == 3
MaxPath == 2
MaxStops == 2

Universes == 1..MaxUniverses
Agents == 1..MaxAgents
WorkerIds == 1..MaxWorkers

(***************************************************************************)
(* State                                                                   *)
(***************************************************************************)
VARIABLES
    \* ---- worker runtime (UniverseManager, UniverseHandle, AgentHandle) ----
    max_turns,          \* UniverseManager.max_turns
    max_iterations,     \* UniverseManager.max_iterations
    launchable,         \* agent ids the environment may still have launched
    active_universes,   \* keys of UniverseManager.active_universes
    active_agents,      \* keys of UniverseManager.active_agents
    uStatus,            \* UniverseHandle.status ("none" = handle not created)
    uAgents,            \* keys of UniverseHandle.agents
    state_version,      \* UniverseHandle.state_version
    aUniverse,          \* universe an AgentHandle was launched in (0 = none)
    aStatus,            \* AgentHandle.status ("none" = handle not created)
    current_turn,       \* AgentHandle.current_turn
    iteration,          \* loop variable of run_tool_use_loop
    toolsLeft,          \* tool_use blocks of the current response not yet finished
    task,               \* asyncio.Task of the agent: none/pending/llm/tool/done/cancelled
    must_cancel,        \* a cancel() was requested and not yet delivered
    pendingChecks,      \* scheduled _check_universe_completion callbacks per universe
    queue_tracked,      \* whether event_queue holds its content (see Emit)
    doneEvents,         \* number of agent_done events put on the queue per agent
    errorEvents,        \* number of agent_error events put on the queue per agent
    \* ---- event queue and event stream (BackendClient.stream_events) ----
    event_queue,        \* UniverseManager.event_queue (asyncio.Queue, FIFO)
    stream_pc,          \* connecting / sleeping / waiting (queue.get) / sending / cancelled
    inflight,           \* the local `event` of stream_events (NoFrame = none)
    delivered,          \* frames that reached the control plane's socket, in order
    enqueued,           \* number of opaque events 1, 2, ... put on the queue
    sent_ok,            \* events whose ws.send returned
    send_failed,        \* events whose ws.send raised, one entry per failure
    \* ---- worker registry (api/workers.py, table orchestration.workers) ----
    workers,            \* the rows of orchestration.workers by id
    secret_store,       \* key names get_api_key resolves to a non-empty value
    registering,        \* register requests between token generation and upsert
    issued,             \* number of tokens secrets.token_urlsafe has produced
    issued_to,          \* per worker id, the tokens of its register calls in upsert order
    last_response,      \* the last HTTP response of the registry endpoints
    \* ---- control plane (main.py worker_event_stream, db/conversations.py) ----
    universe_cache,     \* main.py universe_cache, by universe id
    cp_next,            \* number of frames worker_event_stream has received
    db_tasks,           \* persistence tasks created and not yet finished
    spawned,            \* number of persistence tasks created
    conversations,      \* rows of orchestration.conversations, oldest first
    turns,              \* rows of orchestration.turns, oldest first
    \* ---- fleet: worker processes, dispatcher and liveness reaper (main.py) ----
    cfg_capacity,       \* WorkerConfig.capacity of each worker process
    cfg_address,        \* the worker_address a worker registers with ("none" = null)
    now,                \* the store's clock NOW(), in seconds
    alive,              \* whether the worker process answers on its HTTP port
    running_agents,     \* UniverseManager.running_agent_count of each worker process
    dispatching,        \* dispatch_universe requests between the SELECT and the POST
    dispatch_log,       \* per dispatch request, the outcome of its SELECT
    contacted,          \* the POST /launch requests sent: request number and worker
    reaper_pc,          \* _check_stale_workers: sleeping / sweeping
    stale_rows,         \* the rows of the sweep's SELECT not yet handled, in order
    stale_snapshot,     \* the table and the clock as the sweep's SELECT saw them
    last_ping,          \* the row the sweep handled last and the result of its ping
    sweeps,             \* number of sweeps started
    \* ---- worker process: shutdown flag and heartbeat loop (heartbeat.py) ----
    shutdown_event,     \* asyncio.Event set by SIGTERM / SIGINT
    hb_pc,              \* heartbeat_loop: idle (not started) / check / raised / done
    \* ---- dashboard subscriptions (main.py /ws/universes) and broadcasts ----
    dashboard_ws_clients, \* main.py dashboard_ws_clients: the list of client sockets
    ds_pc,              \* universe_dashboard_stream per client: idle / accepted / open / closed
    healthy,            \* per client: a send on its socket does not raise
    received,           \* per client: the frames put on its socket, in order
    bcast,              \* per worker connection: the running broadcast_to_dashboard call
    conn_open,          \* per worker connection: worker_event_stream is in its loop
    peer_frames,        \* frames a second worker connection delivers, in order
    peer_next,          \* number of frames the second connection's handler has received
    \* ---- LLMClient (worker/llm_client.py) ----
    chat_pc,            \* chat: idle / key (_get_api_key) / post / returned / raised
    attempt,            \* loop variable of chat
    api_key,            \* LLMClient._api_key (0 = empty)
    provider,           \* LLMClient._credential_provider is set
    keys_issued,        \* number of keys the credential provider has returned
    requests,           \* the HTTP requests of the current chat call: key and status
    calls,              \* number of chat calls started
    \* ---- tools (worker/tools.py) ----
    tool_calls,         \* the tool calls the LLM may ask for
    tool_input,         \* the tool call executed last (<<>> = none)
    tool_result,        \* the string it returned
    accessed            \* the paths it read, wrote or listed

workerVars == <<max_turns, max_iterations, launchable, active_universes, active_agents, uStatus, uAgents, state_version,
                aUniverse, aStatus, current_turn, iteration, toolsLeft, task,
                must_cancel, pendingChecks, queue_tracked, doneEvents, errorEvents>>

streamVars == <<stream_pc, inflight, delivered, enqueued, sent_ok, send_failed>>

registryVars == <<workers, secret_store, registering, issued, issued_to, last_response>>

controlVars == <<universe_cache, cp_next, db_tasks, spawned, conversations, turns>>

fleetVars == <<cfg_capacity, cfg_address, now, alive, running_agents, dispatching,
               dispatch_log, contacted, reaper_pc, stale_rows, stale_snapshot,
               last_ping, sweeps>>

clientVars == <<shutdown_event, hb_pc>>

dashVars == <<dashboard_ws_clients, ds_pc, healthy, received, bcast, conn_open,
             peer_frames, peer_next>>

llmVars == <<chat_pc, attempt, api_key, provider, keys_issued, requests, calls>>

toolVars == <<tool_calls, tool_input, tool_result, accessed>>

vars == <<workerVars, event_queue, streamVars, registryVars, controlVars, fleetVars,
          clientVars, dashVars, llmVars, toolVars>>

\* what the steps of one component leave alone
WorkerRest == UNCHANGED <<streamVars, registryVars, controlVars, fleetVars, clientVars,
                          dashVars, llmVars>>
WorkerOnly == WorkerRest /\ UNCHANGED toolVars
StreamOnly == UNCHANGED <<workerVars, registryVars, controlVars, fleetVars, clientVars,
                          dashVars, llmVars, toolVars>>
RegistryOnly == UNCHANGED <<workerVars, event_queue, streamVars, controlVars, fleetVars,
                            clientVars, dashVars, llmVars, toolVars>>
ControlOnly == UNCHANGED <<workerVars, event_queue, streamVars, registryVars, fleetVars,
                           clientVars, dashVars, llmVars, toolVars>>
FleetOnly == UNCHANGED <<workerVars, event_queue, streamVars, controlVars, clientVars,
                         dashVars, llmVars, toolVars>>
ClientOnly == UNCHANGED <<workerVars, event_queue, streamVars, registryVars, controlVars,
                          fleetVars, dashVars, llmVars, toolVars>>
\* the receive loop of a worker connection also starts a broadcast
ReceiveOnly == UNCHANGED <<workerVars, event_queue, streamVars, registryVars, fleetVars,
                           clientVars, llmVars, toolVars>>
DashboardOnly == UNCHANGED <<workerVars, event_queue, streamVars, registryVars, controlVars,
                             fleetVars, clientVars, llmVars, toolVars>>
ChatOnly == UNCHANGED <<workerVars, event_queue, streamVars, registryVars, controlVars,
                        fleetVars, clientVars, dashVars, toolVars>>

(***************************************************************************)
(* Events (agent_loop.py, manager.py): type, universe, agent, turn number, *)
(* iteration index, state version, and whether the response_content of an  *)
(* iteration_detail holds a tool_use block.  Fields an event does not      *)
(* carry are 0 or FALSE.                                                   *)
(***************************************************************************)
Ev(t, u, a, turn, it) ==
    [type |-> t, u |-> u, a |-> a, turn |-> turn, iter |-> it, state_version |-> 0,
     tool_use |-> FALSE]

\* agent_loop.py:139-160, 165-186, 249-270: the iteration_detail of the current
\* iteration; data.response_content is the content of the assistant message
IterationDetail(a, hasToolUse) ==
    [Ev("iteration_detail", aUniverse[a], a, current_turn[a], iteration[a])
        EXCEPT !.tool_use = hasToolUse]

CountType(batch, a, t) == Len(SelectSeq(batch, LAMBDA e : e.a = a /\ e.type = t))

TerminalStatus == {"completed", "error"}

(***************************************************************************)
(* UniverseManager._emit (manager.py:34-37): put the events on the shared  *)
(* queue, in order.  With several agents the content of the queue is every *)
(* interleaving of their events; the specifications that do not read the   *)
(* queue keep only the per-agent counts of its agent_done and agent_error  *)
(* events (queue_tracked = FALSE), the others keep the queue itself.       *)
(***************************************************************************)
EmitBatch(batch) ==
    /\ event_queue' = IF queue_tracked THEN event_queue \o batch ELSE event_queue
    /\ UNCHANGED queue_tracked
    /\ WorkerRest
    /\ doneEvents' = [a \in Agents |-> doneEvents[a] + CountType(batch, a, "agent_done")]
    /\ errorEvents' = [a \in Agents |-> errorEvents[a] + CountType(batch, a, "agent_error")]

\* an emit of a step that runs no tool
Emit(batch) == EmitBatch(batch) /\ UNCHANGED toolVars

\* One agent with every loop configuration up to the bounds.
LoopConfig ==
    /\ max_turns \in 1..MaxTurns
    /\ max_iterations \in 1..MaxIters
    /\ launchable = {1}

\* Up to MaxAgents agents with the shortest loop: one turn of one iteration.
CrowdConfig ==
    /\ max_turns = 1
    /\ max_iterations = 1
    /\ launchable = Agents

\* UniverseManager.__init__ (manager.py:30-32)
WorkerStart ==
    /\ active_universes = {}
    /\ active_agents = {}
    /\ uStatus = [u \in Universes |-> "none"]
    /\ uAgents = [u \in Universes |-> {}]
    /\ state_version = [u \in Universes |-> 0]
    /\ aUniverse = [a \in Agents |-> 0]
    /\ aStatus = [a \in Agents |-> "none"]
    /\ current_turn = [a \in Agents |-> 0]
    /\ iteration = [a \in Agents |-> 0]
    /\ toolsLeft = [a \in Agents |-> 0]
    /\ task = [a \in Agents |-> "none"]
    /\ must_cancel = [a \in Agents |-> FALSE]
    /\ pendingChecks = [u \in Universes |-> 0]
    /\ doneEvents = [a \in Agents |-> 0]
    /\ errorEvents = [a \in Agents |-> 0]


(***************************************************************************)
(* run_agent / run_tool_use_loop (agent_loop.py).  An outcome is what one  *)
(* atomic run of the coroutine, from one suspension point to the next,     *)
(* does: the events it emits, where the task is suspended next (or "done"),*)
(* and the new values of the handle's fields.                              *)
(***************************************************************************)
Outcome(evs, tk, st, turn, it, tools, bump) ==
    [emit |-> evs, task |-> tk, status |-> st, turn |-> turn, iter |-> it,
     tools |-> tools, bump |-> bump]

\* a variant that announces the completion before the events still pending
CompleteOutcomeEarly(a, pre, bump) ==
    Outcome(<<Ev("agent_done", aUniverse[a], a, current_turn[a], 0)>> \o pre,
            "done", "completed", current_turn[a], 0, 0, bump)

\* agent_loop.py:415-423: clean exit of the outer loop.
CompleteOutcome(a, pre, bump) ==
    Outcome(pre \o <<Ev("agent_done", aUniverse[a], a, current_turn[a], 0)>>,
            "done", "completed", current_turn[a], 0, 0, bump)

\* agent_loop.py:312-322 and 100-110: next turn, up to the first LLM call.
BeginTurnOutcome(a, pre, turn, bump) ==
    Outcome(pre \o <<Ev("turn_start", aUniverse[a], a, turn, 0)>>,
            "llm", "running", turn, 0, 0, bump)

\* a variant that reports the version as it was before the increment
TurnEndOutcomeStale(a, pre, hasToolUse) ==
    LET evs == pre \o <<[Ev("turn_end", aUniverse[a], a, current_turn[a], 0)
                            EXCEPT !.state_version = state_version[aUniverse[a]]]>>
    IN  IF hasToolUse /\ current_turn[a] < max_turns
        THEN BeginTurnOutcome(a, evs, current_turn[a] + 1, 1)
        ELSE CompleteOutcome(a, evs, 1)

\* a variant of the early-completion check that stops only at max_turns
TurnEndOutcomeNoBreak(a, pre, hasToolUse) ==
    LET evs == pre \o <<[Ev("turn_end", aUniverse[a], a, current_turn[a], 0)
                            EXCEPT !.state_version = state_version[aUniverse[a]] + 1]>>
    IN  IF current_turn[a] < max_turns
        THEN BeginTurnOutcome(a, evs, current_turn[a] + 1, 1)
        ELSE CompleteOutcome(a, evs, 1)

\* agent_loop.py:382-413: state_version += 1, turn_end, early-completion check.
TurnEndOutcome(a, pre, hasToolUse) ==
    LET evs == pre \o <<[Ev("turn_end", aUniverse[a], a, current_turn[a], 0)
                            EXCEPT !.state_version = state_version[aUniverse[a]] + 1]>>
    IN  IF hasToolUse /\ current_turn[a] < max_turns
        THEN BeginTurnOutcome(a, evs, current_turn[a] + 1, 1)
        ELSE CompleteOutcome(a, evs, 1)

\* a variant whose inner loop makes one pass more than max_iterations
IterationEndOutcomeOneMore(a, pre, hasToolUse) ==
    LET evs == pre \o <<IterationDetail(a, hasToolUse)>>
    IN  IF iteration[a] + 1 <= max_iterations
        THEN Outcome(evs, "llm", "running", current_turn[a], iteration[a] + 1, 0, 0)
        ELSE TurnEndOutcome(a, evs, hasToolUse)

\* agent_loop.py:248-272 and 100: iteration_detail, then the next iteration of
\* the inner loop or, when range(max_iterations) is exhausted, the turn's end.
IterationEndOutcome(a, pre, hasToolUse) ==
    LET evs == pre \o <<IterationDetail(a, hasToolUse)>>
    IN  IF iteration[a] + 1 < max_iterations
        THEN Outcome(evs, "llm", "running", current_turn[a], iteration[a] + 1, 0, 0)
        ELSE TurnEndOutcome(a, evs, hasToolUse)

\* agent_loop.py:192-243: the tool_use blocks still to run.  `sync` of them
\* return without suspending (read_file, write_file, list_files, unknown tool,
\* no tools configured); the next one, if any, suspends (run_command,
\* create_task).
ToolPair(a) ==
    <<Ev("tool_call", aUniverse[a], a, 0, iteration[a]),
      Ev("tool_result", aUniverse[a], a, 0, iteration[a])>>

RECURSIVE Repeat(_, _)
Repeat(s, n) == IF n = 0 THEN <<>> ELSE s \o Repeat(s, n - 1)

ToolsOutcome(a, pre, n, sync) ==
    LET evs == pre \o Repeat(ToolPair(a), sync)
    IN  IF sync = n
        THEN IterationEndOutcome(a, evs, TRUE)
        ELSE Outcome(evs \o <<Ev("tool_call", aUniverse[a], a, 0, iteration[a])>>,
                     "tool", "running", current_turn[a], iteration[a], n - sync, 0)

\* agent_loop.py:112-246: the LLM call returned stop_reason `stop` and a
\* content with n tool_use blocks.
ResponseOutcome(a, stop, n, sync) ==
    LET evs == <<Ev("llm_response", aUniverse[a], a, 0, iteration[a])>>
    IN  IF stop # "tool_use"
        THEN TurnEndOutcome(a,
                evs \o <<IterationDetail(a, n > 0)>>,
                n > 0)
        ELSE IF n = 0 THEN IterationEndOutcome(a, evs, FALSE)
        ELSE ToolsOutcome(a, evs, n, sync)

\* a variant of the handler that records the failure without emitting it
ErrorOutcomeSilent(a) ==
    Outcome(<<>>, "done", "error", current_turn[a], 0, 0, 0)

\* a variant of the handler that closes the turn before it reports the failure
ErrorOutcomeTurnEnd(a) ==
    Outcome(<<Ev("turn_end", aUniverse[a], a, current_turn[a], 0),
              Ev("agent_error", aUniverse[a], a, 0, 0)>>,
            "done", "error", current_turn[a], 0, 0, 1)

\* agent_loop.py:430-440: except Exception.
ErrorOutcome(a) ==
    Outcome(<<Ev("agent_error", aUniverse[a], a, 0, 0)>>,
            "done", "error", current_turn[a], 0, 0, 0)

\* agent_loop.py:425-428: except asyncio.CancelledError.
CancelledOutcome(a) ==
    Outcome(<<>>, "cancelled", "paused", current_turn[a], 0, 0, 0)

\* manager.py:134-138: the task's done callback schedules
\* _check_universe_completion(universe_id) on the event loop.
TaskDoneCallback(a, tk) ==
    pendingChecks' = [pendingChecks EXCEPT ![aUniverse[a]] =
                        IF tk \in {"done", "cancelled"} THEN @ + 1 ELSE @]

ApplyOutcome(a, o) ==
    /\ EmitBatch(o.emit)
    /\ task' = [task EXCEPT ![a] = o.task]
    /\ aStatus' = [aStatus EXCEPT ![a] = o.status]
    /\ current_turn' = [current_turn EXCEPT ![a] = o.turn]
    /\ iteration' = [iteration EXCEPT ![a] = o.iter]
    /\ toolsLeft' = [toolsLeft EXCEPT ![a] = o.tools]
    /\ state_version' = [state_version EXCEPT ![aUniverse[a]] = @ + o.bump]
    /\ must_cancel' = [must_cancel EXCEPT ![a] = FALSE]
    /\ TaskDoneCallback(a, o.task)
    /\ UNCHANGED <<max_turns, max_iterations, launchable, active_universes,
                   active_agents, uStatus, uAgents, aUniverse>>

\* an atomic run that executes no tool
Apply(a, o) == ApplyOutcome(a, o) /\ UNCHANGED toolVars

\* agent_loop.py:288-322: first run of the task.
AgentStart(a) ==
    /\ task[a] = "pending" /\ ~must_cancel[a]
    /\ Apply(a, BeginTurnOutcome(a,
                  <<Ev("agent_started", aUniverse[a], a, 0, 0)>>, 1, 0))

\* A task cancelled before its first run never enters the coroutine: no line
\* of run_agent executes and the task ends cancelled.
AgentCancelledBeforeStart(a) ==
    /\ task[a] = "pending" /\ must_cancel[a]
    /\ task' = [task EXCEPT ![a] = "cancelled"]
    /\ must_cancel' = [must_cancel EXCEPT ![a] = FALSE]
    /\ TaskDoneCallback(a, "cancelled")
    /\ Emit(<<>>)
    /\ UNCHANGED <<max_turns, max_iterations, launchable>>
    /\ UNCHANGED <<active_universes, active_agents, uStatus, uAgents, state_version,
                   aUniverse, aStatus, current_turn, iteration, toolsLeft>>

StopReasons == {"end_turn", "tool_use", "max_tokens"}

LLMReturn(a) ==
    /\ task[a] = "llm" /\ ~must_cancel[a]
    /\ \E stop \in StopReasons, n \in 0..MaxTools :
         \E sync \in 0..n : Apply(a, ResponseOutcome(a, stop, n, sync))

\* llm.chat raises (non-2xx, second 401, time-out, failing credential provider).
LLMRaise(a) ==
    /\ task[a] = "llm" /\ ~must_cancel[a]
    /\ Apply(a, ErrorOutcome(a))

(***************************************************************************)
(* LLMClient.chat (llm_client.py): one call at a time, as run_tool_use_loop *)
(* awaits it.  A key is a number: 0 the empty string, 1 the key the client *)
(* was built with, n + 1 the n-th key the credential provider returned.    *)
(***************************************************************************)
\* the status codes of the LLM endpoint; 0 stands for a request that httpx
\* ends with an exception (time-out, connection error)
Statuses == {0, 200, 401, 500}

\* a client that is never called
LLMStart ==
    /\ chat_pc = "idle"
    /\ attempt = 0
    /\ api_key = 0
    /\ provider = FALSE
    /\ keys_issued = 0
    /\ requests = <<>>
    /\ calls = 0

\* llm_client.py:41-67: chat is called; the loop starts with attempt 0
chat_begin ==
    /\ chat_pc \in {"idle", "returned", "raised"}
    /\ calls < MaxCalls
    /\ calls' = calls + 1
    /\ chat_pc' = "key"
    /\ attempt' = 0
    /\ requests' = <<>>
    /\ UNCHANGED <<api_key, provider, keys_issued>>
    /\ ChatOnly

\* llm_client.py:27-36 and 68: _get_api_key(force_refresh = attempt > 0)
\* returns the cached key, or the key it gets from the provider and caches
get_api_key ==
    /\ chat_pc = "key"
    /\ IF api_key # 0 /\ attempt = 0
       THEN UNCHANGED <<api_key, keys_issued>>
       ELSE IF provider
       THEN /\ keys_issued' = keys_issued + 1
            /\ api_key' = keys_issued + 2
       ELSE UNCHANGED <<api_key, keys_issued>>
    /\ chat_pc' = "post"
    /\ UNCHANGED <<attempt, provider, requests, calls>>
    /\ ChatOnly

\* llm_client.py:34: the credential provider raises; chat does not catch it
provider_raises ==
    /\ chat_pc = "key"
    /\ provider
    /\ ~(api_key # 0 /\ attempt = 0)
    /\ chat_pc' = "raised"
    /\ UNCHANGED <<attempt, api_key, provider, keys_issued, requests, calls>>
    /\ ChatOnly

\* a variant that tries again after every first 401
chat_post_retry_always(status) ==
    /\ chat_pc = "post"
    /\ requests' = Append(requests, [key |-> api_key, status |-> status])
    /\ IF status = 401 /\ attempt = 0
       THEN /\ attempt' = 1
            /\ chat_pc' = "key"
       ELSE /\ attempt' = attempt
            /\ chat_pc' = IF status = 200 THEN "returned" ELSE "raised"
    /\ UNCHANGED <<api_key, provider, keys_issued, calls>>
    /\ ChatOnly

\* llm_client.py:70-94: the POST with the key in x-api-key and what follows
\* the answer: `continue` after a first 401 with a provider, otherwise
\* raise_for_status and the return
chat_post(status) ==
    /\ chat_pc = "post"
    /\ requests' = Append(requests, [key |-> api_key, status |-> status])
    /\ IF status = 401 /\ attempt = 0 /\ provider
       THEN /\ attempt' = 1
            /\ chat_pc' = "key"
       ELSE /\ attempt' = attempt
            /\ chat_pc' = IF status = 200 THEN "returned" ELSE "raised"
    /\ UNCHANGED <<api_key, provider, keys_issued, calls>>
    /\ ChatOnly

ChatStep ==
    \/ chat_begin
    \/ get_api_key
    \/ provider_raises
    \/ \E status \in Statuses : chat_post(status)

(***************************************************************************)
(* Tools (tools.py).  A path is a sequence of names; the worktree is the   *)
(* directory /w, next to the directory /wx.                                *)
(***************************************************************************)
PathNames == {"..", "a", "w", "wx"}

\* the characters of a name
Chars(name) ==
    CASE name = "a" -> <<"a">>
      [] name = "w" -> <<"w">>
      [] name = "wx" -> <<"w", "x">>
      [] name = "." -> <<".">>
      [] name = ".." -> <<".", ".">>

\* the sequences over S of length 1..n
RECURSIVE SeqsUpTo(_, _)
SeqsUpTo(S, n) ==
    IF n = 0 THEN {}
    ELSE {<<x>> : x \in S} \cup {Append(s, x) : s \in SeqsUpTo(S, n - 1), x \in S}

\* the `path` argument of a tool call: absolute (a leading "/") or not
Paths == [absolute : BOOLEAN, parts : SeqsUpTo(PathNames, MaxPath)]

\* tools.py:15: Path(worktree_path).resolve()
Root == <<"w">>

\* Path.resolve(): "." is dropped, ".." takes the last name off (at the root
\* it changes nothing); the model has no symbolic links
RECURSIVE Normalize(_, _)
Normalize(done, parts) ==
    IF parts = <<>> THEN done
    ELSE Normalize(IF Head(parts) = "." THEN done
                   ELSE IF Head(parts) = ".."
                   THEN SubSeq(done, 1, Len(done) - 1)
                   ELSE Append(done, Head(parts)),
                   Tail(parts))

\* tools.py:16: (base / relative_path).resolve(); an absolute relative_path
\* replaces base
Resolve(path) ==
    IF path.absolute THEN Normalize(<<>>, path.parts) ELSE Normalize(Root, path.parts)

\* str(path): "/" and the names, joined with "/"
RECURSIVE Joined(_)
Joined(p) == IF p = <<>> THEN <<>> ELSE <<"/">> \o Chars(Head(p)) \o Joined(Tail(p))

Str(p) == IF p = <<>> THEN <<"/">> ELSE Joined(p)

\* str.startswith
StartsWith(s, t) == Len(t) <= Len(s) /\ SubSeq(s, 1, Len(t)) = t

\* tools.py:13-19: the target, and whether ValueError is raised
safe_resolve(path) ==
    [target |-> Resolve(path),
     raised |-> ~StartsWith(Str(Resolve(path)), Str(Root))]

\* the path is the worktree root or lies below it
InsideRoot(p) == Len(p) >= Len(Root) /\ SubSeq(p, 1, Len(Root)) = Root

\* the files and directories that exist
ExistingPaths == {<<>>, <<"a">>, <<"w">>, <<"w", "a">>, <<"wx">>, <<"wx", "a">>}

NoPath == [absolute |-> FALSE, parts |-> <<".">>]

\* The tool calls of an LLM response.  `tools` is what run_tool_use_loop has
\* for the agent (agent_loop.py:94-98, 211-218): the worktree tools, the
\* task-creator tools or none; `outcome` is what the environment does to the
\* call: ok, exception (an OSError, a missing input key, a failed request),
\* and for a command also nonzero (exit code) and timeout, for create_task
\* also rejected (a status other than 200).
ToolCalls ==
    {[tools |-> "worktree", name |-> n, path |-> p, outcome |-> o] :
        n \in {"read_file", "write_file", "list_files"}, p \in Paths,
        o \in {"ok", "exception"}}
    \cup {[tools |-> "worktree", name |-> "run_command", path |-> NoPath, outcome |-> o] :
            o \in {"ok", "nonzero", "timeout", "exception"}}
    \cup {[tools |-> "worktree", name |-> "create_task", path |-> NoPath, outcome |-> "ok"]}
    \cup {[tools |-> "task-creator", name |-> "create_task", path |-> NoPath, outcome |-> o] :
            o \in {"ok", "rejected", "exception"}}
    \cup {[tools |-> "task-creator", name |-> "read_file", path |-> NoPath, outcome |-> "ok"]}
    \cup {[tools |-> "none", name |-> "read_file", path |-> NoPath, outcome |-> "ok"]}

\* a command that runs and prints nothing
PlainCommand == [tools |-> "worktree", name |-> "run_command", path |-> NoPath,
                 outcome |-> "ok"]

\* the tools of the specifications that do not look at tool results
ToolStart ==
    /\ tool_calls = {PlainCommand}
    /\ tool_input = <<>>
    /\ tool_result = ""
    /\ accessed = {}

ToolEnd(exc, result, paths) == [exc |-> exc, result |-> result, accessed |-> paths]

\* tools.py:89-132: the body of execute_tool's try block: the exception that
\* leaves it ("" = none), the string it returns, the paths it reads, writes
\* or lists
ToolBody(call) ==
    LET r == safe_resolve(call.path)
    IN  IF call.name \in {"read_file", "write_file", "list_files"}
        THEN IF r.raised THEN ToolEnd("ValueError", "Path traversal blocked", {})
             ELSE IF call.name # "write_file" /\ r.target \notin ExistingPaths
             THEN ToolEnd("", IF call.name = "read_file" THEN "Error: File not found"
                              ELSE "Error: Directory not found", {})
             ELSE IF call.outcome = "exception"
             THEN ToolEnd("Exception", "", {r.target})
             ELSE ToolEnd("", IF call.name = "read_file" THEN "content"
                              ELSE IF call.name = "write_file"
                              THEN "File written successfully"
                              ELSE "entries", {r.target})
        ELSE IF call.name = "run_command"
        THEN IF call.outcome = "exception" THEN ToolEnd("Exception", "", {})
             ELSE IF call.outcome = "timeout"
             THEN ToolEnd("", "Error: Command timed out after 60 seconds.", {})
             ELSE IF call.outcome = "nonzero" THEN ToolEnd("", "(exit code: 1)", {})
             ELSE ToolEnd("", "(no output)", {})
        ELSE ToolEnd("", "Error: Unknown tool", {})

\* a variant of execute_tool without the except clauses
execute_tool_uncaught(call) ==
    [raised |-> ToolBody(call).exc # "",
     result |-> ToolBody(call).result,
     accessed |-> ToolBody(call).accessed]

\* tools.py:86-138: execute_tool; ValueError and Exception become strings
execute_tool(call) ==
    [raised |-> FALSE,
     result |-> IF ToolBody(call).exc = "ValueError"
                THEN "Error: Path traversal blocked"
                ELSE IF ToolBody(call).exc = "Exception" THEN "Error executing tool"
                ELSE ToolBody(call).result,
     accessed |-> ToolBody(call).accessed]

\* tools.py:181-198: execute_task_creator_tool
execute_task_creator_tool(call) ==
    [raised |-> FALSE,
     result |-> IF call.name # "create_task" THEN "Unknown tool"
                ELSE IF call.outcome = "ok" THEN "Task created successfully"
                ELSE "Error creating task",
     accessed |-> {}]

\* agent_loop.py:211-218: the result of one tool_use block
ToolResult(call) ==
    IF call.tools = "task-creator" THEN execute_task_creator_tool(call)
    ELSE IF call.tools = "worktree" THEN execute_tool(call)
    ELSE [raised |-> FALSE, result |-> "Error: No tools configured for this universe.",
          accessed |-> {}]

\* agent_loop.py:211-243: the tool the task was suspended in is over.  A
\* string result goes into tool_result and the loop goes on; an exception
\* would leave run_tool_use_loop and reach run_agent's handler.
ToolReturn(a) ==
    /\ task[a] = "tool" /\ ~must_cancel[a]
    /\ \E call \in tool_calls :
         /\ IF ToolResult(call).raised
            THEN ApplyOutcome(a, ErrorOutcome(a))
            ELSE \E sync \in 0..(toolsLeft[a] - 1) :
                    ApplyOutcome(a, ToolsOutcome(a,
                        <<Ev("tool_result", aUniverse[a], a, 0, iteration[a])>>,
                        toolsLeft[a] - 1, sync))
         /\ tool_input' = <<call>>
         /\ tool_result' = ToolResult(call).result
         /\ accessed' = ToolResult(call).accessed
         /\ UNCHANGED tool_calls

\* The CancelledError is thrown into the coroutine at its suspension point.
CancelDelivered(a) ==
    /\ task[a] \in {"llm", "tool"} /\ must_cancel[a]
    /\ Apply(a, CancelledOutcome(a))

(***************************************************************************)
(* UniverseManager (manager.py).  None of its coroutines suspends: they    *)
(* await only _emit and each other, so each call is one action.            *)
(***************************************************************************)
FreeUniverses == {u \in Universes : uStatus[u] = "none"}
FreeAgents == {a \in launchable : aStatus[a] = "none"}

\* uuid4(): a fresh id; the n lowest unused ones are taken.
FirstFree(n) == {a \in FreeAgents : Cardinality({b \in FreeAgents : b < a}) < n}

\* manager.py:107-131: AgentHandle(status="idle"), create_task, registration.
LaunchAgents(u, new) ==
    /\ aStatus' = [a \in Agents |-> IF a \in new THEN "idle" ELSE aStatus[a]]
    /\ aUniverse' = [a \in Agents |-> IF a \in new THEN u ELSE aUniverse[a]]
    /\ task' = [a \in Agents |-> IF a \in new THEN "pending" ELSE task[a]]
    /\ uAgents' = [uAgents EXCEPT ![u] = @ \cup new]
    /\ active_agents' = active_agents \cup new

\* a variant that starts the agents without announcing the universe
launch_universe_unannounced(u, n) ==
    /\ u \in FreeUniverses
    /\ \A v \in FreeUniverses : u <= v
    /\ n <= Cardinality(FreeAgents)
    /\ uStatus' = [uStatus EXCEPT ![u] = "active"]
    /\ active_universes' = active_universes \cup {u}
    /\ Emit(<<>>)
    /\ LaunchAgents(u, FirstFree(n))
    /\ UNCHANGED <<max_turns, max_iterations, launchable>>
    /\ UNCHANGED <<state_version, current_turn, iteration, toolsLeft, must_cancel,
                   pendingChecks>>

\* manager.py:39-92
launch_universe(u, n) ==
    /\ u \in FreeUniverses
    /\ \A v \in FreeUniverses : u <= v
    /\ n <= Cardinality(FreeAgents)
    /\ uStatus' = [uStatus EXCEPT ![u] = "active"]
    /\ active_universes' = active_universes \cup {u}
    /\ Emit(<<Ev("universe_created", u, 0, 0, 0)>>)
    /\ LaunchAgents(u, FirstFree(n))
    /\ UNCHANGED <<max_turns, max_iterations, launchable>>
    /\ UNCHANGED <<state_version, current_turn, iteration, toolsLeft, must_cancel,
                   pendingChecks>>

\* manager.py:94-144 (raises ValueError when the universe is not in the map)
launch_agent(u) ==
    /\ u \in active_universes
    /\ FreeAgents # {}
    /\ LaunchAgents(u, FirstFree(1))
    /\ Emit(<<>>)
    /\ UNCHANGED <<max_turns, max_iterations, launchable>>
    /\ UNCHANGED <<active_universes, uStatus, state_version, current_turn, iteration,
                   toolsLeft, must_cancel, pendingChecks>>

\* manager.py:152-156
AllDone(u) ==
    /\ \A a \in uAgents[u] : aStatus[a] \in {"completed", "error"}
    /\ uAgents[u] # {}

\* manager.py:146-161, run by the event loop once per scheduled callback.
check_universe_completion(u) ==
    /\ pendingChecks[u] > 0
    /\ pendingChecks' = [pendingChecks EXCEPT ![u] = @ - 1]
    /\ IF u \in active_universes /\ AllDone(u)
       THEN /\ uStatus' = [uStatus EXCEPT ![u] = "terminated"]
            /\ active_agents' = active_agents \ uAgents[u]
            /\ active_universes' = active_universes \ {u}
       ELSE UNCHANGED <<uStatus, active_agents, active_universes>>
    /\ Emit(<<>>)
    /\ UNCHANGED <<max_turns, max_iterations, launchable>>
    /\ UNCHANGED <<uAgents, state_version, aUniverse, aStatus, current_turn, iteration,
                   toolsLeft, task, must_cancel>>

\* asyncio.Task.done()
TaskFinished(a) == task[a] \in {"done", "cancelled"}

\* manager.py:171-172: task.cancel() (no effect on a finished task), then
\* agent.status = "paused".
StopAgentStatus(a) == "paused"

\* manager.py:163-173
stop_agent(u, a) ==
    /\ u \in active_universes
    /\ a \in uAgents[u]
    /\ must_cancel' = [must_cancel EXCEPT ![a] = IF TaskFinished(a) THEN @ ELSE TRUE]
    /\ aStatus' = [aStatus EXCEPT ![a] = StopAgentStatus(a)]
    /\ Emit(<<>>)
    /\ UNCHANGED <<max_turns, max_iterations, launchable>>
    /\ UNCHANGED <<active_universes, active_agents, uStatus, uAgents, state_version,
                   aUniverse, current_turn, iteration, toolsLeft, task, pendingChecks>>

\* a variant without the task.done() test of manager.py:182
StopUniversesAnyTask(U) ==
    LET hit == {a \in Agents : aUniverse[a] \in U /\ a \in uAgents[aUniverse[a]]}
    IN  /\ must_cancel' = [a \in Agents |-> IF a \in hit /\ ~TaskFinished(a)
                                              THEN TRUE ELSE must_cancel[a]]
        /\ aStatus' = [a \in Agents |-> IF a \in hit THEN "paused" ELSE aStatus[a]]
        /\ uStatus' = [u \in Universes |-> IF u \in U THEN "terminated" ELSE uStatus[u]]

\* manager.py:181-186 for a set U of universes
StopUniverses(U) ==
    LET hit == {a \in Agents : aUniverse[a] \in U /\ a \in uAgents[aUniverse[a]]
                               /\ ~TaskFinished(a)}
    IN  /\ must_cancel' = [a \in Agents |-> IF a \in hit THEN TRUE ELSE must_cancel[a]]
        /\ aStatus' = [a \in Agents |-> IF a \in hit THEN "paused" ELSE aStatus[a]]
        /\ uStatus' = [u \in Universes |-> IF u \in U THEN "terminated" ELSE uStatus[u]]

\* the universe_stopped events of the universes of U, in the order of the map
RECURSIVE StoppedEvents(_)
StoppedEvents(U) ==
    IF U = {} THEN <<>>
    ELSE LET u == CHOOSE x \in U : \A y \in U : x <= y
         IN  <<Ev("universe_stopped", u, 0, 0, 0)>> \o StoppedEvents(U \ {u})

\* manager.py:175-195
stop_universe(u) ==
    /\ u \in active_universes
    /\ StopUniverses({u})
    /\ Emit(StoppedEvents({u}))
    /\ UNCHANGED <<max_turns, max_iterations, launchable>>
    /\ UNCHANGED <<active_universes, active_agents, uAgents, state_version, aUniverse,
                   current_turn, iteration, toolsLeft, task, pendingChecks>>

\* manager.py:197-201
stop_all ==
    /\ StopUniverses(active_universes)
    /\ Emit(StoppedEvents(active_universes))
    /\ active_agents' = {}
    /\ UNCHANGED <<max_turns, max_iterations, launchable>>
    /\ UNCHANGED <<active_universes, uAgents, state_version, aUniverse,
                   current_turn, iteration, toolsLeft, task, pendingChecks>>

AgentStep(a) ==
    \/ AgentStart(a)
    \/ AgentCancelledBeforeStart(a)
    \/ LLMReturn(a)
    \/ LLMRaise(a)
    \/ ToolReturn(a)
    \/ CancelDelivered(a)

ManagerStep ==
    \/ \E u \in Universes, n \in 0..MaxAgents : launch_universe(u, n)
    \/ \E u \in Universes : launch_agent(u)
    \/ \E u \in Universes : check_universe_completion(u)
    \/ \E u \in Universes, a \in Agents : stop_agent(u, a)
    \/ \E u \in Universes : stop_universe(u)
    \/ stop_all

WorkerNext == (\E a \in Agents : AgentStep(a)) \/ ManagerStep

(***************************************************************************)
(* BackendClient.stream_events (client.py:101-134): the single consumer of *)
(* the event queue.  The events are opaque to it (json.dumps(event)).      *)
(***************************************************************************)
\* the sender holds no event, or the one event it took off the queue
NoFrame == <<>>

\* client.py:17-23 and the start of stream_events
StreamStart ==
    /\ event_queue = <<>>
    /\ stream_pc = "connecting"
    /\ inflight = NoFrame
    /\ delivered = <<>>
    /\ enqueued = 0
    /\ sent_ok = {}
    /\ send_failed = <<>>

\* client.py:115-117: websockets.connect succeeded
StreamConnect ==
    /\ stream_pc = "connecting"
    /\ stream_pc' = "waiting"
    /\ UNCHANGED <<event_queue, inflight, delivered, enqueued, sent_ok, send_failed>>
    /\ StreamOnly

\* client.py:131-134: connecting raised; sleep 5 s
StreamConnectFail ==
    /\ stream_pc = "connecting"
    /\ stream_pc' = "sleeping"
    /\ UNCHANGED <<event_queue, inflight, delivered, enqueued, sent_ok, send_failed>>
    /\ StreamOnly

\* client.py:134 and 113: the sleep is over, the outer loop connects again
StreamWake ==
    /\ stream_pc = "sleeping"
    /\ stream_pc' = "connecting"
    /\ UNCHANGED <<event_queue, inflight, delivered, enqueued, sent_ok, send_failed>>
    /\ StreamOnly

\* client.py:119: event = await event_queue.get()
StreamGet ==
    /\ stream_pc = "waiting"
    /\ event_queue # <<>>
    /\ inflight' = <<Head(event_queue)>>
    /\ event_queue' = Tail(event_queue)
    /\ stream_pc' = "sending"
    /\ UNCHANGED <<delivered, enqueued, sent_ok, send_failed>>
    /\ StreamOnly

\* a variant in which the put-back also runs after a send that returned
StreamSendOkRequeue ==
    /\ stream_pc = "sending"
    /\ delivered' = Append(delivered, inflight[1])
    /\ sent_ok' = sent_ok \cup {inflight[1]}
    /\ event_queue' = Append(event_queue, inflight[1])
    /\ inflight' = NoFrame
    /\ stream_pc' = "waiting"
    /\ UNCHANGED <<enqueued, send_failed>>
    /\ StreamOnly

\* client.py:121-122: ws.send returned
StreamSendOk ==
    /\ stream_pc = "sending"
    /\ delivered' = Append(delivered, inflight[1])
    /\ sent_ok' = sent_ok \cup {inflight[1]}
    /\ inflight' = NoFrame
    /\ stream_pc' = "waiting"
    /\ UNCHANGED <<event_queue, enqueued, send_failed>>
    /\ StreamOnly

\* a variant of the failure handler that does not put the event back
RequeueDrop(q, e) == q

\* client.py:126: await event_queue.put(event); asyncio.Queue.put appends at
\* the tail of the FIFO.
Requeue(q, e) == Append(q, e)

\* client.py:123-127: ws.send raised; the frame may or may not have reached
\* the control plane before the failure.  The event is put back, the inner
\* loop is left and the outer loop connects again.
StreamSendFail(arrived) ==
    /\ stream_pc = "sending"
    /\ Len(send_failed) < MaxSendFailures
    /\ event_queue' = Requeue(event_queue, inflight[1])
    /\ delivered' = IF arrived THEN Append(delivered, inflight[1]) ELSE delivered
    /\ send_failed' = Append(send_failed, inflight[1])
    /\ inflight' = NoFrame
    /\ stream_pc' = "connecting"
    /\ UNCHANGED <<enqueued, sent_ok>>
    /\ StreamOnly

\* client.py:128-130 and 152-159: the task is cancelled at its suspension
\* point (connect, sleep, get or send) and leaves the loop.
StreamCancel ==
    /\ stream_pc # "cancelled"
    /\ stream_pc' = "cancelled"
    /\ inflight' = NoFrame
    /\ UNCHANGED <<event_queue, delivered, enqueued, sent_ok, send_failed>>
    /\ StreamOnly

\* manager.py:34-37 seen from the consumer: some producer puts the next
\* event (numbered in the order of the puts) on the queue.
Enqueue ==
    /\ enqueued < MaxEvents
    /\ enqueued' = enqueued + 1
    /\ event_queue' = Append(event_queue, enqueued + 1)
    /\ UNCHANGED <<stream_pc, inflight, delivered, sent_ok, send_failed>>
    /\ StreamOnly

StreamStep ==
    \/ StreamConnect
    \/ StreamConnectFail
    \/ StreamWake
    \/ StreamGet
    \/ StreamSendOk
    \/ \E arrived \in BOOLEAN : StreamSendFail(arrived)

(***************************************************************************)
(* Worker registry and credential broker (api/workers.py).  Every handler  *)
(* issues one SQL statement, which the store runs atomically.  A raw token *)
(* is 32 bytes of secrets.token_urlsafe: the n-th call returns token n,    *)
(* never a value returned before.                                          *)
(***************************************************************************)
NoRow == [exists |-> FALSE]

WorkerStatuses == {"online", "offline", "busy"}

KeyNames == {"ANTHROPIC_API_KEY", "AWS_SECRET_ACCESS_KEY"}

\* workers.py:139
AllowedCredentialKeys ==
    {"ANTHROPIC_API_KEY", "OPENAI_API_KEY", "GOOGLE_API_KEY", "GEMINI_API_KEY"}

\* hashlib.sha256(token.encode()).hexdigest() (workers.py:61, 150): a digest,
\* not the token, with distinct digests for distinct tokens
Sha256(token) == <<"sha256", token>>

\* every worker process is up, idle and configured alike; no dispatch and no
\* sweep has begun
FleetRest ==
    /\ now = 0
    /\ alive = [w \in WorkerIds |-> TRUE]
    /\ running_agents = [w \in WorkerIds |-> 0]
    /\ dispatching = {}
    /\ dispatch_log = <<>>
    /\ contacted = <<>>
    /\ reaper_pc = "sleeping"
    /\ stale_rows = <<>>
    /\ stale_snapshot = [rows |-> [w \in WorkerIds |-> NoRow], at |-> 0]
    /\ last_ping = [worker |-> 0, code |-> 0]
    /\ sweeps = 0
    /\ shutdown_event = FALSE
    /\ hb_pc = "idle"

\* config.py:76-82: a worker process always has an address to register with
FleetStart ==
    /\ cfg_capacity = [w \in WorkerIds |-> 1]
    /\ cfg_address = [w \in WorkerIds |-> "url"]
    /\ FleetRest

RegistryStart ==
    /\ workers = [w \in WorkerIds |-> NoRow]
    /\ registering = {}
    /\ issued = 0
    /\ issued_to = [w \in WorkerIds |-> <<>>]
    /\ last_response = [op |-> "none", code |-> 0, token |-> 0]

\* workers.py:59-61: raw_token = secrets.token_urlsafe(32); the handler then
\* awaits the pool and a connection
RegisterBegin(w) ==
    /\ issued < MaxTokens
    /\ issued' = issued + 1
    /\ registering' = registering \cup
            {[worker_id |-> w, raw_token |-> issued + 1,
              max_concurrent_agents |-> cfg_capacity[w], worker_address |-> cfg_address[w]]}
    /\ UNCHANGED <<workers, secret_store, issued_to, last_response>>
    /\ RegistryOnly

\* a variant of the upsert that leaves auth_token_hash of a known worker alone
UpsertKeepHash(tbl, r, token_hash) ==
    [tbl EXCEPT ![r.worker_id] =
        [exists |-> TRUE, status |-> "online", current_agents |-> 0,
         max_concurrent_agents |-> r.max_concurrent_agents,
         worker_address |-> r.worker_address,
         last_heartbeat_at |-> now,
         auth_token_hash |-> IF tbl[r.worker_id].exists
                             THEN tbl[r.worker_id].auth_token_hash ELSE token_hash]]

\* workers.py:68-81: INSERT ... ON CONFLICT (id) DO UPDATE SET ... status =
\* 'online', last_heartbeat_at = NOW(), current_agents = 0, auth_token_hash =
\* EXCLUDED.auth_token_hash, and worker_address and max_concurrent_agents as sent
Upsert(tbl, r, token_hash) ==
    [tbl EXCEPT ![r.worker_id] =
        [exists |-> TRUE, status |-> "online", current_agents |-> 0,
         max_concurrent_agents |-> r.max_concurrent_agents,
         worker_address |-> r.worker_address,
         last_heartbeat_at |-> now,
         auth_token_hash |-> token_hash]]

\* workers.py:64-99 with request.worker_id set, as the worker client always
\* sends it (client.py:38): the upsert, and the response with the raw token
RegisterCommit(r) ==
    /\ r \in registering
    /\ registering' = registering \ {r}
    /\ workers' = Upsert(workers, r, Sha256(r.raw_token))
    /\ issued_to' = [issued_to EXCEPT ![r.worker_id] = Append(@, r.raw_token)]
    /\ last_response' = [op |-> "register", code |-> 200, token |-> r.raw_token]
    /\ UNCHANGED <<secret_store, issued>>
    /\ RegistryOnly

\* workers.py:102-119: UPDATE ... SET last_heartbeat_at = NOW(), current_agents
\* = $2, status = $3; load and status are stored as sent
worker_heartbeat(w, current_agents, status) ==
    /\ workers' = IF workers[w].exists
                  THEN [workers EXCEPT ![w] = [@ EXCEPT !.current_agents = current_agents,
                                                        !.status = status,
                                                        !.last_heartbeat_at = now]]
                  ELSE workers
    /\ last_response' = [op |-> "heartbeat", token |-> 0, worker |-> w,
                         code |-> IF workers[w].exists THEN 200 ELSE 404]
    /\ UNCHANGED <<secret_store, registering, issued, issued_to>>
    /\ RegistryOnly

\* workers.py:122-136
deregister_worker(w) ==
    /\ workers' = IF workers[w].exists
                  THEN [workers EXCEPT ![w] = [@ EXCEPT !.status = "offline"]]
                  ELSE workers
    /\ last_response' = [op |-> "deregister", token |-> 0,
                         code |-> IF workers[w].exists THEN 200 ELSE 404]
    /\ UNCHANGED <<secret_store, registering, issued, issued_to>>
    /\ RegistryOnly

\* workers.py:153-157: the ids of the rows WHERE auth_token_hash = $1
RowsByHash(token_hash) ==
    {w \in WorkerIds : workers[w].exists /\ workers[w].auth_token_hash = token_hash}

\* conn.fetchrow: one of the matching rows, or None
FetchRow(token_hash) ==
    IF RowsByHash(token_hash) = {} THEN {NoRow}
    ELSE {workers[w] : w \in RowsByHash(token_hash)}

\* a variant that validates the key name before it looks at the worker's status
CredentialStatusKeyFirst(bearer, row, key_name) ==
    IF ~bearer THEN 401
    ELSE IF ~row.exists THEN 401
    ELSE IF key_name \notin AllowedCredentialKeys THEN 400
    ELSE IF row.status = "offline" THEN 403
    ELSE IF key_name \notin secret_store THEN 404
    ELSE 200

\* workers.py:146-172 for the row the lookup returned
CredentialStatus(bearer, row, key_name) ==
    IF ~bearer THEN 401
    ELSE IF ~row.exists THEN 401
    ELSE IF row.status = "offline" THEN 403
    ELSE IF key_name \notin AllowedCredentialKeys THEN 400
    ELSE IF key_name \notin secret_store THEN 404
    ELSE 200

\* the status codes a credential request with this header can get
CredentialStatuses(bearer, token, key_name) ==
    {CredentialStatus(bearer, row, key_name) : row \in FetchRow(Sha256(token))}

\* workers.py:142-172
get_worker_credential(bearer, token, key_name) ==
    /\ \E code \in CredentialStatuses(bearer, token, key_name) :
            last_response' = [op |-> "credential", code |-> code, token |-> token,
                              bearer |-> bearer, key_name |-> key_name]
    /\ UNCHANGED <<workers, secret_store, registering, issued, issued_to>>
    /\ RegistryOnly

RegistryStep ==
    \/ \E w \in WorkerIds : RegisterBegin(w)
    \/ \E r \in registering : RegisterCommit(r)
    \/ \E w \in WorkerIds, n \in 0..1, st \in WorkerStatuses : worker_heartbeat(w, n, st)
    \/ \E w \in WorkerIds : deregister_worker(w)
    \/ \E bearer \in BOOLEAN, token \in 0..issued, key_name \in KeyNames :
            get_worker_credential(bearer, token, key_name)

(***************************************************************************)
(* Dispatcher: dispatch_universe (main.py:177-228).  The handler awaits    *)
(* the SELECT and then the POST to the worker it selected; other requests  *)
(* are served in between.  It never writes to orchestration.workers: the   *)
(* load of a row changes only by register and heartbeat.  The worker side  *)
(* (server.py:63-85, manager.py launch_universe) starts the agents it is   *)
(* sent, one per dispatch (main.py:208-213), without a capacity test.      *)
(***************************************************************************)
\* main.py:186-189: WHERE status = 'online' AND current_agents < max_concurrent_agents
EligibleWorkers ==
    {w \in WorkerIds : /\ workers[w].exists
                       /\ workers[w].status = "online"
                       /\ workers[w].current_agents < workers[w].max_concurrent_agents}

\* a variant of the query without ORDER BY
LeastLoadedUnordered(E) == E

\* main.py:189: ORDER BY current_agents ASC LIMIT 1; among equally loaded rows
\* the store returns any
LeastLoaded(E) ==
    {w \in E : \A v \in E : workers[w].current_agents <= workers[v].current_agents}

\* main.py:183-192: the SELECT, and HTTPException(503) without a row
DispatchSelect ==
    /\ Len(dispatch_log) < MaxDispatch
    /\ IF EligibleWorkers = {}
       THEN /\ dispatch_log' = Append(dispatch_log, [code |-> 503, worker |-> 0])
            /\ UNCHANGED dispatching
       ELSE \E w \in LeastLoaded(EligibleWorkers) :
                /\ dispatch_log' = Append(dispatch_log, [code |-> 0, worker |-> w])
                /\ dispatching' = dispatching \cup
                        {[id |-> Len(dispatch_log) + 1, worker |-> w,
                          worker_address |-> workers[w].worker_address]}
    /\ UNCHANGED <<registryVars, cfg_capacity, cfg_address, now, alive, running_agents,
                   contacted, reaper_pc, stale_rows, stale_snapshot, last_ping, sweeps>>
    /\ FleetOnly

\* main.py:205-228 with server.py:63-85: POST {worker_address}/launch with one
\* agent.  A null address or a worker that is down raises in httpx (500, no
\* worker served the request); otherwise the worker launches the agent, which
\* starts in status running, and answers 200.
DispatchForward(d) ==
    /\ d \in dispatching
    /\ dispatching' = dispatching \ {d}
    /\ IF d.worker_address = "none" \/ ~alive[d.worker]
       THEN /\ dispatch_log' = [dispatch_log EXCEPT ![d.id].code = 500]
            /\ UNCHANGED <<contacted, running_agents>>
       ELSE /\ dispatch_log' = [dispatch_log EXCEPT ![d.id].code = 200]
            /\ contacted' = Append(contacted, [id |-> d.id, worker |-> d.worker])
            /\ running_agents' = [running_agents EXCEPT ![d.worker] = @ + 1]
    /\ UNCHANGED <<registryVars, cfg_capacity, cfg_address, now, alive,
                   reaper_pc, stale_rows, stale_snapshot, last_ping, sweeps>>
    /\ FleetOnly

\* agent_loop.py / manager.py: an agent of worker w leaves status running
\* (completed, error or paused)
AgentFinished(w) ==
    /\ running_agents[w] > 0
    /\ running_agents' = [running_agents EXCEPT ![w] = @ - 1]
    /\ UNCHANGED <<registryVars, cfg_capacity, cfg_address, now, alive, dispatching,
                   dispatch_log, contacted, reaper_pc, stale_rows, stale_snapshot,
                   last_ping, sweeps>>
    /\ FleetOnly

DispatchStep ==
    \/ DispatchSelect
    \/ \E d \in dispatching : DispatchForward(d)
    \/ \E w \in WorkerIds : AgentFinished(w)

(***************************************************************************)
(* Liveness reaper: _check_stale_workers (main.py:41-90).  One sweep is    *)
(* the SELECT of the stale rows and then, row by row in the order the      *)
(* store returned them, the ping of the worker's /health and one UPDATE;   *)
(* the task is suspended at the SELECT, at each ping and at each UPDATE.   *)
(* Time is the store's NOW() in seconds; it advances in steps of the sweep *)
(* interval.                                                               *)
(***************************************************************************)
\* main.py:58: INTERVAL '90 seconds'
StaleThreshold == 90

\* main.py:50: asyncio.sleep(30)
SweepInterval == 30

Tick ==
    /\ now < MaxClock * SweepInterval
    /\ now' = now + SweepInterval
    /\ UNCHANGED <<registryVars, cfg_capacity, cfg_address, alive, running_agents,
                   dispatching, dispatch_log, contacted, reaper_pc, stale_rows,
                   stale_snapshot, last_ping, sweeps>>
    /\ FleetOnly

\* the worker process is killed: its port stops answering, its agents are gone
WorkerCrash(w) ==
    /\ alive[w]
    /\ alive' = [alive EXCEPT ![w] = FALSE]
    /\ running_agents' = [running_agents EXCEPT ![w] = 0]
    /\ UNCHANGED <<registryVars, cfg_capacity, cfg_address, now, dispatching,
                   dispatch_log, contacted, reaper_pc, stale_rows, stale_snapshot,
                   last_ping, sweeps>>
    /\ FleetOnly

\* a variant of the WHERE clause without the test of the status
IsStaleAnyStatus(row, t) ==
    /\ row.exists
    /\ row.last_heartbeat_at < t - StaleThreshold

\* main.py:57-58: WHERE last_heartbeat_at < NOW() - INTERVAL '90 seconds' AND
\* status != 'offline'
IsStale(row, t) ==
    /\ row.exists
    /\ row.last_heartbeat_at < t - StaleThreshold
    /\ row.status # "offline"

\* the sequences that list the elements of S once each
Orderings(S) ==
    {q \in [1..Cardinality(S) -> S] : \A i, j \in 1..Cardinality(S) : q[i] = q[j] => i = j}

\* main.py:50-59: the sleep is over, the SELECT returns the stale rows in some
\* order; each carries the address it had at this moment
ReaperSweep ==
    /\ reaper_pc = "sleeping"
    /\ sweeps < MaxSweeps
    /\ sweeps' = sweeps + 1
    /\ \E q \in Orderings({w \in WorkerIds : IsStale(workers[w], now)}) :
            /\ stale_rows' = [i \in 1..Len(q) |->
                                [id |-> q[i], worker_address |-> workers[q[i]].worker_address]]
            /\ reaper_pc' = IF Len(q) = 0 THEN "sleeping" ELSE "sweeping"
    /\ stale_snapshot' = [rows |-> workers, at |-> now]
    /\ UNCHANGED <<registryVars, cfg_capacity, cfg_address, now, alive, running_agents,
                   dispatching, dispatch_log, contacted, last_ping>>
    /\ FleetOnly

\* main.py:67-71: with an address, GET {address}/health (timeout 5 s); a
\* worker that is down does not answer
ReaperPing ==
    /\ reaper_pc = "sweeping"
    /\ Head(stale_rows).worker_address # "none"
    /\ last_ping' = [worker |-> Head(stale_rows).id,
                     code |-> IF alive[Head(stale_rows).id] THEN 200 ELSE 0]
    /\ reaper_pc' = "pinged"
    /\ UNCHANGED <<registryVars, cfg_capacity, cfg_address, now, alive, running_agents,
                   dispatching, dispatch_log, contacted, stale_rows, stale_snapshot, sweeps>>
    /\ FleetOnly

\* the for loop goes on to the next row, or the sweep ends and the task sleeps
ReaperAdvance ==
    /\ stale_rows' = Tail(stale_rows)
    /\ reaper_pc' = IF Tail(stale_rows) = <<>> THEN "sleeping" ELSE "sweeping"

\* main.py:71-77: the ping returned 200: UPDATE ... SET last_heartbeat_at =
\* NOW() WHERE id = $1; continue
ReaperRefresh ==
    /\ reaper_pc = "pinged"
    /\ last_ping.code = 200
    /\ workers' = [workers EXCEPT ![Head(stale_rows).id].last_heartbeat_at = now]
    /\ ReaperAdvance
    /\ UNCHANGED <<secret_store, registering, issued, issued_to, last_response,
                   cfg_capacity, cfg_address, now, alive, running_agents, dispatching,
                   dispatch_log, contacted, stale_snapshot, last_ping, sweeps>>
    /\ FleetOnly

\* main.py:66, 78-85: no address, or the ping raised or was not answered 200:
\* UPDATE ... SET status = 'offline' WHERE id = $1
ReaperSetOffline ==
    /\ \/ reaper_pc = "sweeping" /\ Head(stale_rows).worker_address = "none"
       \/ reaper_pc = "pinged" /\ last_ping.code # 200
    /\ workers' = [workers EXCEPT ![Head(stale_rows).id].status = "offline"]
    /\ ReaperAdvance
    /\ UNCHANGED <<secret_store, registering, issued, issued_to, last_response,
                   cfg_capacity, cfg_address, now, alive, running_agents, dispatching,
                   dispatch_log, contacted, stale_snapshot, last_ping, sweeps>>
    /\ FleetOnly

ReaperStep == ReaperSweep \/ ReaperPing \/ ReaperRefresh \/ ReaperSetOffline

(***************************************************************************)
(* Worker process: run (__main__.py:73-156) registers, then starts         *)
(* heartbeat_loop (heartbeat.py:12-55) as a task; SIGTERM and SIGINT set   *)
(* shutdown_event.  The loop is modelled as it is declared, started with   *)
(* client, config and shutdown_event.  Each round begins with              *)
(*     success = await client.heartbeat(current_jobs=0, status="online")   *)
(* and BackendClient.heartbeat is declared (client.py:59) as               *)
(*     heartbeat(self, current_agents: int = 0, status: str = "online")    *)
(* so the call raises TypeError (unexpected keyword argument current_jobs) *)
(* when the arguments are bound, before a coroutine exists and before any  *)
(* request is sent.  Nothing in the loop catches it: the task ends.        *)
(***************************************************************************)
\* WorkerConfig.worker_id of the worker process (config.py:37, 60-61)
Self == 1

\* manager.py:203-211: agents with status running in the active universes
RunningAgentCount ==
    Cardinality({a \in Agents : /\ aUniverse[a] \in active_universes
                                /\ a \in uAgents[aUniverse[a]]
                                /\ aStatus[a] = "running"})

\* client.py:23, 48: BackendClient.auth_token, the token of the last register
\* response (0 = None)
AuthToken ==
    IF issued_to[Self] = <<>> THEN 0 ELSE issued_to[Self][Len(issued_to[Self])]

\* __main__.py:92 with client.py:28-57: the register request of the start-up
ClientRegister ==
    /\ issued_to[Self] = <<>>
    /\ \A r \in registering : r.worker_id # Self
    /\ RegisterBegin(Self)

\* client.py:88-99: GET /api/workers/credentials/ANTHROPIC_API_KEY with
\* Authorization: Bearer {self.auth_token}; without a token it raises
fetch_credential ==
    /\ AuthToken # 0
    /\ get_worker_credential(TRUE, AuthToken, "ANTHROPIC_API_KEY")

\* __main__.py:76-79: loop.add_signal_handler(sig, shutdown_event.set)
ShutdownSignal ==
    /\ ~shutdown_event
    /\ shutdown_event' = TRUE
    /\ UNCHANGED hb_pc
    /\ ClientOnly

\* __main__.py:92, 115-118: the task is created once register has returned
HeartbeatLoopStart ==
    /\ hb_pc = "idle"
    /\ AuthToken # 0
    /\ hb_pc' = "check"
    /\ UNCHANGED shutdown_event
    /\ ClientOnly

\* a variant of the round that does not test the shutdown flag
HeartbeatRoundUnguarded ==
    /\ hb_pc = "check"
    /\ hb_pc' = "raised"
    /\ UNCHANGED shutdown_event
    /\ ClientOnly

\* heartbeat.py:24-25: while not shutdown_event.is_set(): the heartbeat call,
\* which raises TypeError and ends the task; no request leaves the worker
HeartbeatRound ==
    /\ hb_pc = "check"
    /\ ~shutdown_event
    /\ hb_pc' = "raised"
    /\ UNCHANGED shutdown_event
    /\ ClientOnly

\* heartbeat.py:24: the flag is set, the loop is left
HeartbeatExit ==
    /\ hb_pc = "check"
    /\ shutdown_event
    /\ hb_pc' = "done"
    /\ UNCHANGED shutdown_event
    /\ ClientOnly

HeartbeatStep == HeartbeatLoopStart \/ HeartbeatRound \/ HeartbeatExit

(***************************************************************************)
(* Control plane: worker_event_stream (main.py:453-555) receives the       *)
(* frames of one worker connection in order; for each it updates the       *)
(* universe cache and creates a persistence task (asyncio.create_task,     *)
(* not awaited).  The persistence tasks (db/conversations.py) take their   *)
(* own pool connection (connection.py:75-78, up to 10) and run one SQL     *)
(* statement at a time, each statement atomic, outside any transaction.    *)
(* No dashboard client is connected: broadcast_to_dashboard (main.py:403)  *)
(* iterates over an empty list.                                            *)
(***************************************************************************)
NoUniverse == [exists |-> FALSE]

\* the dashboard clients that may connect, and the two worker connections:
\* 1 delivers the frames of `delivered`, 2 those of `peer_frames`
Clients == 1..MaxClients

Connections == {1, 2}

\* no broadcast_to_dashboard call is running on the connection
NoBroadcast == [active |-> FALSE, message |-> <<>>, idx |-> 0, disconnected |-> <<>>]

\* main.py:39-40, 455-457: no dashboard client, both worker connections in
\* their receive loop
DashboardStart ==
    /\ dashboard_ws_clients = <<>>
    /\ ds_pc = [c \in Clients |-> "idle"]
    /\ healthy = [c \in Clients |-> TRUE]
    /\ received = [c \in Clients |-> <<>>]
    /\ bcast = [k \in Connections |-> NoBroadcast]
    /\ conn_open = [k \in Connections |-> TRUE]
    /\ peer_frames = <<>>
    /\ peer_next = 0

ControlPlaneStart ==
    /\ universe_cache = [u \in Universes |-> NoUniverse]
    /\ cp_next = 0
    /\ db_tasks = {}
    /\ spawned = 0
    /\ conversations = <<>>
    /\ turns = <<>>

\* main.py:476-489: the agent_started upsert into the cached agents list
UpsertAgent(agents, a) ==
    IF \E i \in 1..Len(agents) : agents[i].id = a
    THEN LET i == CHOOSE i \in 1..Len(agents) :
                    agents[i].id = a /\ \A j \in 1..(i - 1) : agents[j].id # a
         IN  [agents EXCEPT ![i] = [id |-> a, status |-> "running", current_turn |-> 0]]
    ELSE Append(agents, [id |-> a, status |-> "running", current_turn |-> 0])

\* main.py:490-503: set a field of every cached agent with this id
SetAgentStatus(agents, a, st) ==
    [i \in 1..Len(agents) |-> IF agents[i].id = a THEN [agents[i] EXCEPT !.status = st]
                                                  ELSE agents[i]]

SetAgentTurn(agents, a, turn) ==
    [i \in 1..Len(agents) |-> IF agents[i].id = a THEN [agents[i] EXCEPT !.current_turn = turn]
                                                  ELSE agents[i]]

\* main.py:462-508: the cache after the event e
CacheAfter(cache, e) ==
    IF e.type = "universe_created"
    THEN [cache EXCEPT ![e.u] = [exists |-> TRUE, status |-> "active",
                                 agents |-> <<>>, state_version |-> 0]]
    ELSE IF ~cache[e.u].exists THEN cache
    ELSE IF e.type = "universe_stopped"
    THEN [cache EXCEPT ![e.u].status = "terminated"]
    ELSE IF e.type = "agent_started"
    THEN [cache EXCEPT ![e.u].agents = UpsertAgent(@, e.a)]
    ELSE IF e.type = "agent_done"
    THEN [cache EXCEPT ![e.u].agents = SetAgentStatus(@, e.a, "completed")]
    ELSE IF e.type = "agent_error"
    THEN [cache EXCEPT ![e.u].agents = SetAgentStatus(@, e.a, "error")]
    ELSE IF e.type = "turn_start"
    THEN [cache EXCEPT ![e.u].agents = SetAgentTurn(@, e.a, e.turn)]
    ELSE IF e.type = "turn_end"
    THEN [cache EXCEPT ![e.u].state_version = e.state_version]
    ELSE cache

\* main.py:526-530 with conversations.py:64-66: the usage block of an
\* iteration_detail frame; the counts differ from one iteration to the next
InputTokens(e) == e.turn + e.iter

OutputTokens(e) == e.iter + 1

\* main.py:542-545: data.error of an agent_error frame
ErrorText == "error"

\* main.py:518-547: the persistence task the event creates, if any
PersistenceTasks(e, id) ==
    IF e.type = "agent_started"
    THEN {[id |-> id, op |-> "create_conversation", u |-> e.u, a |-> e.a,
           turn |-> 0, iter |-> 0, status |-> "running", pc |-> "insert", conv |-> 0,
           input_tokens |-> 0, output_tokens |-> 0, error_message |-> ""]}
    ELSE IF e.type = "iteration_detail"
    THEN {[id |-> id, op |-> "insert_turn", u |-> e.u, a |-> e.a,
           turn |-> e.turn, iter |-> e.iter, status |-> "", pc |-> "select", conv |-> 0,
           input_tokens |-> InputTokens(e), output_tokens |-> OutputTokens(e),
           error_message |-> ""]}
    ELSE IF e.type = "agent_done"
    THEN {[id |-> id, op |-> "complete_conversation", u |-> e.u, a |-> e.a,
           turn |-> 0, iter |-> 0, status |-> "completed", pc |-> "update", conv |-> 0,
           input_tokens |-> 0, output_tokens |-> 0, error_message |-> ""]}
    ELSE IF e.type = "agent_error"
    THEN {[id |-> id, op |-> "complete_conversation", u |-> e.u, a |-> e.a,
           turn |-> 0, iter |-> 0, status |-> "error", pc |-> "update", conv |-> 0,
           input_tokens |-> 0, output_tokens |-> 0, error_message |-> ErrorText]}
    ELSE {}

\* main.py:403-406, 550: broadcast_to_dashboard(data) starts; over an empty
\* client list it returns without an await
BeginBroadcast(e) ==
    IF dashboard_ws_clients = <<>> THEN NoBroadcast
    ELSE [active |-> TRUE, message |-> <<e>>, idx |-> 0, disconnected |-> <<>>]

\* main.py:459-550: one pass of the receive loop, up to the first await of
\* the broadcast; the loop receives the next frame when the broadcast is over
ReceiveEvent ==
    /\ conn_open[1] /\ ~bcast[1].active
    /\ cp_next < Len(delivered)
    /\ LET e == delivered[cp_next + 1]
       IN  /\ universe_cache' = CacheAfter(universe_cache, e)
           /\ db_tasks' = db_tasks \cup PersistenceTasks(e, spawned + 1)
           /\ spawned' = spawned + Cardinality(PersistenceTasks(e, spawned + 1))
           /\ bcast' = [bcast EXCEPT ![1] = BeginBroadcast(e)]
    /\ cp_next' = cp_next + 1
    /\ UNCHANGED <<conversations, turns>>
    /\ UNCHANGED <<dashboard_ws_clients, ds_pc, healthy, received, conn_open,
                   peer_frames, peer_next>>
    /\ ReceiveOnly

\* the same pass on the second worker connection
ReceivePeerEvent ==
    /\ conn_open[2] /\ ~bcast[2].active
    /\ peer_next < Len(peer_frames)
    /\ LET e == peer_frames[peer_next + 1]
       IN  /\ universe_cache' = CacheAfter(universe_cache, e)
           /\ db_tasks' = db_tasks \cup PersistenceTasks(e, spawned + 1)
           /\ spawned' = spawned + Cardinality(PersistenceTasks(e, spawned + 1))
           /\ bcast' = [bcast EXCEPT ![2] = BeginBroadcast(e)]
    /\ peer_next' = peer_next + 1
    /\ UNCHANGED <<cp_next, conversations, turns>>
    /\ UNCHANGED <<dashboard_ws_clients, ds_pc, healthy, received, conn_open, peer_frames>>
    /\ ReceiveOnly

\* the members of a sequence
Members(s) == {s[i] : i \in 1..Len(s)}

\* list.remove(x): the list without the first x
RemoveFirst(s, x) ==
    LET i == CHOOSE i \in 1..Len(s) : s[i] = x /\ \A j \in 1..(i - 1) : s[j] # x
    IN  SubSeq(s, 1, i - 1) \o SubSeq(s, i + 1, Len(s))

\* main.py:404-410: the next pass of `for ws in dashboard_ws_clients`: the
\* list iterator takes the element at its index in the list as it is now;
\* ws.send_json puts the frame on the socket, or raises and ws is noted.
\* The await lets every other coroutine run before the next pass.
broadcast_send(k) ==
    /\ bcast[k].active
    /\ bcast[k].idx < Len(dashboard_ws_clients)
    /\ LET ws == dashboard_ws_clients[bcast[k].idx + 1]
       IN  IF healthy[ws]
           THEN /\ received' = [received EXCEPT ![ws] = Append(@, bcast[k].message[1])]
                /\ bcast' = [bcast EXCEPT ![k].idx = @ + 1]
           ELSE /\ received' = received
                /\ bcast' = [bcast EXCEPT ![k].idx = @ + 1,
                                          ![k].disconnected = Append(@, ws)]
    /\ UNCHANGED <<dashboard_ws_clients, ds_pc, healthy, conn_open, peer_frames, peer_next>>
    /\ DashboardOnly

\* main.py:411-412: for ws in disconnected: dashboard_ws_clients.remove(ws);
\* list.remove raises ValueError for a ws that is no longer in the list
RECURSIVE RemoveEach(_, _)
RemoveEach(list, disconnected) ==
    IF disconnected = <<>> THEN [list |-> list, raised |-> FALSE]
    ELSE IF Head(disconnected) \notin Members(list) THEN [list |-> list, raised |-> TRUE]
    ELSE RemoveEach(RemoveFirst(list, Head(disconnected)), Tail(disconnected))

\* main.py:404, 411-412 and 552-555: the iterator is exhausted, the noted
\* clients are removed; an exception leaves broadcast_to_dashboard and the
\* receive loop, and worker_event_stream drops the connection
broadcast_finish(k) ==
    /\ bcast[k].active
    /\ bcast[k].idx >= Len(dashboard_ws_clients)
    /\ dashboard_ws_clients' = RemoveEach(dashboard_ws_clients, bcast[k].disconnected).list
    /\ conn_open' = [conn_open EXCEPT ![k] =
                        ~RemoveEach(dashboard_ws_clients, bcast[k].disconnected).raised]
    /\ bcast' = [bcast EXCEPT ![k] = NoBroadcast]
    /\ UNCHANGED <<ds_pc, healthy, received, peer_frames, peer_next>>
    /\ DashboardOnly

\* a variant of the accept that already enters the socket in the client list
universe_dashboard_accept_listed(c) ==
    /\ ds_pc[c] = "idle"
    /\ ds_pc' = [ds_pc EXCEPT ![c] = "accepted"]
    /\ dashboard_ws_clients' = Append(dashboard_ws_clients, c)
    /\ UNCHANGED <<healthy, received, bcast, conn_open, peer_frames, peer_next>>
    /\ DashboardOnly

\* main.py:430: await websocket.accept()
universe_dashboard_accept(c) ==
    /\ ds_pc[c] = "idle"
    /\ ds_pc' = [ds_pc EXCEPT ![c] = "accepted"]
    /\ UNCHANGED <<dashboard_ws_clients, healthy, received, bcast, conn_open,
                   peer_frames, peer_next>>
    /\ DashboardOnly

\* main.py:435-438: list(universe_cache.values()) in a snapshot frame
Snapshot == [type |-> "snapshot",
             universes |-> {u \in Universes : universe_cache[u].exists}]

\* main.py:431-438 and 445-450: the socket is appended to the client list and
\* the snapshot is put on it, without an await in between; when the send
\* raises, the handler takes the socket out of the list again and ends
universe_dashboard_register(c) ==
    /\ ds_pc[c] = "accepted"
    /\ IF healthy[c]
       THEN /\ dashboard_ws_clients' = Append(dashboard_ws_clients, c)
            /\ received' = [received EXCEPT ![c] = Append(@, Snapshot)]
            /\ ds_pc' = [ds_pc EXCEPT ![c] = "open"]
       ELSE /\ dashboard_ws_clients' = dashboard_ws_clients
            /\ received' = received
            /\ ds_pc' = [ds_pc EXCEPT ![c] = "closed"]
    /\ UNCHANGED <<healthy, bcast, conn_open, peer_frames, peer_next>>
    /\ DashboardOnly

\* the connection of the client breaks: from now on a send to it raises
DashboardBreak(c) ==
    /\ healthy[c]
    /\ ds_pc[c] # "closed"
    /\ healthy' = [healthy EXCEPT ![c] = FALSE]
    /\ UNCHANGED <<dashboard_ws_clients, ds_pc, received, bcast, conn_open,
                   peer_frames, peer_next>>
    /\ DashboardOnly

\* main.py:440-450: receive_text raises on the broken connection; the
\* handler removes the socket if it is still in the list
universe_dashboard_disconnect(c) ==
    /\ ds_pc[c] = "open"
    /\ ~healthy[c]
    /\ dashboard_ws_clients' = IF c \in Members(dashboard_ws_clients)
                               THEN RemoveFirst(dashboard_ws_clients, c)
                               ELSE dashboard_ws_clients
    /\ ds_pc' = [ds_pc EXCEPT ![c] = "closed"]
    /\ UNCHANGED <<healthy, received, bcast, conn_open, peer_frames, peer_next>>
    /\ DashboardOnly

DashboardStep ==
    \/ \E c \in Clients : universe_dashboard_accept(c)
    \/ \E c \in Clients : universe_dashboard_register(c)
    \/ \E c \in Clients : DashboardBreak(c)
    \/ \E c \in Clients : universe_dashboard_disconnect(c)
    \/ \E k \in Connections : broadcast_send(k)
    \/ \E k \in Connections : broadcast_finish(k)

\* conversations.py:12-36: INSERT INTO orchestration.conversations; the row
\* starts with status running and zero totals (read back by line 131)
create_conversation(t) ==
    /\ t.op = "create_conversation"
    /\ conversations' = Append(conversations,
            [universe_id |-> t.u, agent_id |-> t.a, status |-> "running",
             total_iterations |-> 0, total_turns |-> 0,
             total_input_tokens |-> 0, total_output_tokens |-> 0,
             error_message |-> ""])
    /\ db_tasks' = db_tasks \ {t}
    /\ UNCHANGED <<universe_cache, cp_next, spawned, turns>>
    /\ ControlOnly

\* conversations.py:50-57: ... ORDER BY created_at DESC LIMIT 1 (0 = no row)
NewestConversation(u, a) ==
    LET ids == {i \in 1..Len(conversations) :
                    conversations[i].universe_id = u /\ conversations[i].agent_id = a}
    IN  IF ids = {} THEN 0 ELSE CHOOSE i \in ids : \A j \in ids : j <= i

\* a variant of the SELECT that goes on to the INSERT without a row
insert_turn_select_unchecked(t) ==
    /\ t.op = "insert_turn" /\ t.pc = "select"
    /\ db_tasks' = (db_tasks \ {t}) \cup
                        {[t EXCEPT !.pc = "insert", !.conv = NewestConversation(t.u, t.a)]}
    /\ UNCHANGED <<universe_cache, cp_next, spawned, conversations, turns>>
    /\ ControlOnly

\* conversations.py:48-62: the SELECT; without a row the task returns None
insert_turn_select(t) ==
    /\ t.op = "insert_turn" /\ t.pc = "select"
    /\ db_tasks' = IF NewestConversation(t.u, t.a) = 0
                   THEN db_tasks \ {t}
                   ELSE (db_tasks \ {t}) \cup
                        {[t EXCEPT !.pc = "insert", !.conv = NewestConversation(t.u, t.a)]}
    /\ UNCHANGED <<universe_cache, cp_next, spawned, conversations, turns>>
    /\ ControlOnly

\* The definition of orchestration.turns is not part of the sources; the
\* specification gives the table a uniqueness constraint on
\* (conversation_id, turn_number, iteration_number).  A row with this key exists:
TurnKeyTaken(conv, turn, iter) ==
    \E i \in 1..Len(turns) : /\ turns[i].conversation_id = conv
                             /\ turns[i].turn_number = turn
                             /\ turns[i].iteration_number = iter

\* a variant of the INSERT on a table without the constraint
insert_turn_insert_unchecked(t) ==
    /\ t.op = "insert_turn" /\ t.pc = "insert"
    /\ turns' = Append(turns, [conversation_id |-> t.conv, turn_number |-> t.turn,
                               iteration_number |-> t.iter,
                               input_tokens |-> t.input_tokens,
                               output_tokens |-> t.output_tokens])
    /\ db_tasks' = (db_tasks \ {t}) \cup {[t EXCEPT !.pc = "update"]}
    /\ UNCHANGED <<universe_cache, cp_next, spawned, conversations>>
    /\ ControlOnly

\* conversations.py:70-98: INSERT INTO orchestration.turns, without ON CONFLICT.
\* On a key that is taken the statement raises; insert_turn catches every
\* Exception, logs it and returns None (conversations.py:114-116), so the
\* aggregates of the conversation are not updated either.
insert_turn_insert(t) ==
    /\ t.op = "insert_turn" /\ t.pc = "insert"
    /\ IF TurnKeyTaken(t.conv, t.turn, t.iter)
       THEN /\ turns' = turns
            /\ db_tasks' = db_tasks \ {t}
       ELSE /\ turns' = Append(turns, [conversation_id |-> t.conv, turn_number |-> t.turn,
                                       iteration_number |-> t.iter,
                                       input_tokens |-> t.input_tokens,
                                       output_tokens |-> t.output_tokens])
            /\ db_tasks' = (db_tasks \ {t}) \cup {[t EXCEPT !.pc = "update"]}
    /\ UNCHANGED <<universe_cache, cp_next, spawned, conversations>>
    /\ ControlOnly

Greatest(x, y) == IF x >= y THEN x ELSE y

\* a variant of the UPDATE that stores the turn number of the last writer
insert_turn_update_last(t) ==
    /\ t.op = "insert_turn" /\ t.pc = "update"
    /\ conversations' = [conversations EXCEPT ![t.conv] =
            [@ EXCEPT !.total_iterations = @ + 1,
                      !.total_turns = t.turn,
                      !.total_input_tokens = @ + t.input_tokens,
                      !.total_output_tokens = @ + t.output_tokens]]
    /\ db_tasks' = db_tasks \ {t}
    /\ UNCHANGED <<universe_cache, cp_next, spawned, turns>>
    /\ ControlOnly

\* conversations.py:100-111: UPDATE ... SET total_iterations = total_iterations
\* + 1, total_turns = GREATEST(total_turns, $2), total_input_tokens =
\* total_input_tokens + $3, total_output_tokens = total_output_tokens + $4
\* WHERE id = $1
insert_turn_update(t) ==
    /\ t.op = "insert_turn" /\ t.pc = "update"
    /\ conversations' = [conversations EXCEPT ![t.conv] =
            [@ EXCEPT !.total_iterations = @ + 1,
                      !.total_turns = Greatest(@, t.turn),
                      !.total_input_tokens = @ + t.input_tokens,
                      !.total_output_tokens = @ + t.output_tokens]]
    /\ db_tasks' = db_tasks \ {t}
    /\ UNCHANGED <<universe_cache, cp_next, spawned, turns>>
    /\ ControlOnly

\* a variant of the UPDATE without the condition on the status
complete_conversation_any(t) ==
    /\ t.op = "complete_conversation"
    /\ conversations' = [i \in 1..Len(conversations) |->
            IF /\ conversations[i].universe_id = t.u
               /\ conversations[i].agent_id = t.a
            THEN [conversations[i] EXCEPT !.status = t.status,
                                          !.error_message = t.error_message]
            ELSE conversations[i]]
    /\ db_tasks' = db_tasks \ {t}
    /\ UNCHANGED <<universe_cache, cp_next, spawned, turns>>
    /\ ControlOnly

\* conversations.py:119-142: UPDATE ... SET status = $3, error_message = $4
\* WHERE universe_id = $1 AND agent_id = $2 AND status = 'running'
complete_conversation(t) ==
    /\ t.op = "complete_conversation"
    /\ conversations' = [i \in 1..Len(conversations) |->
            IF /\ conversations[i].universe_id = t.u
               /\ conversations[i].agent_id = t.a
               /\ conversations[i].status = "running"
            THEN [conversations[i] EXCEPT !.status = t.status,
                                          !.error_message = t.error_message]
            ELSE conversations[i]]
    /\ db_tasks' = db_tasks \ {t}
    /\ UNCHANGED <<universe_cache, cp_next, spawned, turns>>
    /\ ControlOnly

PersistenceStep ==
    \/ \E t \in db_tasks : create_conversation(t)
    \/ \E t \in db_tasks : insert_turn_select(t)
    \/ \E t \in db_tasks : insert_turn_insert(t)
    \/ \E t \in db_tasks : insert_turn_update(t)
    \/ \E t \in db_tasks : complete_conversation(t)

ControlPlaneStep == ReceiveEvent \/ PersistenceStep

(***************************************************************************)
(* Spec: the worker runtime with every operation of the manager; the queue *)
(* is summarised by the per-agent counts.                                  *)
(***************************************************************************)
Init ==
    /\ WorkerStart
    /\ LoopConfig \/ CrowdConfig
    /\ queue_tracked = FALSE
    /\ StreamStart
    /\ RegistryStart
    /\ FleetStart
    /\ ControlPlaneStart
    /\ LLMStart
    /\ ToolStart
    /\ DashboardStart
    /\ secret_store = {}

Next == WorkerNext

Spec == Init /\ [][Next]_vars

(***************************************************************************)
(* LoopSpec: one universe with one agent, every loop configuration, the    *)
(* queue kept in full                                                      *)
(* and never consumed, so that event_queue is the sequence of all events   *)
(* emitted so far.  stop_universe and stop_all, which can put any number   *)
(* of universe_stopped events on the queue, are left to Spec.              *)
(***************************************************************************)
LoopInit ==
    /\ WorkerStart
    /\ LoopConfig
    /\ queue_tracked = TRUE
    /\ StreamStart
    /\ RegistryStart
    /\ FleetStart
    /\ ControlPlaneStart
    /\ LLMStart
    /\ ToolStart
    /\ DashboardStart
    /\ secret_store = {}

LoopSteps ==
    \/ \E a \in Agents : AgentStep(a)
    \/ \E n \in 0..MaxAgents : launch_universe(1, n)
    \/ \E u \in Universes : launch_agent(u)
    \/ \E u \in Universes : check_universe_completion(u)
    \/ \E u \in Universes, a \in Agents : stop_agent(u, a)

LoopNext == LoopSteps

LoopSpec == LoopInit /\ [][LoopNext]_vars

(***************************************************************************)
(* Claims about the worker runtime                                         *)
(***************************************************************************)

\* C3: an agent whose status is completed has put exactly one agent_done and
\* no agent_error on the queue, an agent whose status is error exactly one
\* agent_error and no agent_done, and no agent ever emitted both or the same
\* one twice.
C3_ExactlyOneTerminalEvent ==
    \A a \in Agents :
        /\ aStatus[a] = "completed" => doneEvents[a] = 1 /\ errorEvents[a] = 0
        /\ aStatus[a] = "error" => errorEvents[a] = 1 /\ doneEvents[a] = 0
        /\ doneEvents[a] + errorEvents[a] <= 1

\* one agent finished completed and another finished in error
C3_Witness ==
    \E a, b \in Agents :
        /\ aStatus[a] = "completed" /\ doneEvents[a] = 1
        /\ aStatus[b] = "error" /\ errorEvents[b] = 1

\* the events one agent put on the queue, in order
AgentEvents(a) == SelectSeq(event_queue, LAMBDA e : e.a = a)

InTurnTypes == {"llm_response", "tool_call", "tool_result", "iteration_detail"}

\* s[i] lies in the turn opened by the turn_start at j: no turn_end between
OpenTurnAt(s, j, i) ==
    /\ j < i
    /\ s[j].type = "turn_start"
    /\ \A k \in (j + 1)..(i - 1) : s[k].type \notin {"turn_start", "turn_end"}

OrderedEvents(s) ==
    \A i \in 1..Len(s) :
        \* agent_started precedes every other event of the agent
        /\ s[i].type = "agent_started" <=> i = 1
        \* the events of a turn lie between its turn_start and its turn_end
        /\ s[i].type \in InTurnTypes => \E j \in 1..i : OpenTurnAt(s, j, i)
        /\ s[i].type = "turn_end" =>
                \E j \in 1..i : OpenTurnAt(s, j, i) /\ s[j].turn = s[i].turn
        \* a turn has at least one llm_response and iteration_detail
        /\ s[i].type = "turn_end" => s[i - 1].type = "iteration_detail"
        \* a tool_call is followed by its tool_result, and both come between
        \* the llm_response and the iteration_detail of their iteration
        /\ s[i].type = "tool_call" =>
                /\ i < Len(s) => s[i + 1].type = "tool_result" /\ s[i + 1].iter = s[i].iter
                /\ s[i - 1].type \in {"llm_response", "tool_result"}
                /\ s[i - 1].iter = s[i].iter
        /\ s[i].type = "tool_result" => s[i - 1].type = "tool_call"
        /\ s[i].type = "iteration_detail" =>
                /\ s[i - 1].type \in {"llm_response", "tool_result"}
                /\ s[i - 1].iter = s[i].iter
        /\ s[i].type = "llm_response" =>
                s[i - 1].type \in {"turn_start", "iteration_detail"}
        \* turns are numbered 1, 2, ... in the order they are emitted
        /\ s[i].type = "turn_start" =>
                \/ s[i - 1].type = "agent_started" /\ s[i].turn = 1
                \/ s[i - 1].type = "turn_end" /\ s[i].turn = s[i - 1].turn + 1
        \* agent_done and agent_error end the agent's events
        /\ s[i].type \in {"agent_done", "agent_error"} => i = Len(s)

\* C4: the events of one agent are ordered agent_started, then the turns in
\* increasing number, each turn_start, (llm_response, (tool_call,
\* tool_result)*, iteration_detail)+, turn_end, and agent_done or agent_error,
\* when emitted, is the last one.
C4_EventOrder == \A a \in Agents : OrderedEvents(AgentEvents(a))

\* an agent ran two turns, called a tool and finished
C4_Witness ==
    \E a \in Agents :
        LET s == AgentEvents(a)
        IN  /\ Len(s) > 0 /\ s[Len(s)].type = "agent_done"
            /\ \E i \in 1..Len(s) : s[i].type = "turn_start" /\ s[i].turn = 2
            /\ \E i \in 1..Len(s) : s[i].type = "tool_result"
            /\ \E i \in 1..Len(s) : s[i].type = "iteration_detail" /\ s[i].iter = 1

\* C5 (as claimed): once an agent's status is completed or error, no step
\* changes it.
C5_TerminalFinal ==
    [][\A a \in Agents : aStatus[a] \in TerminalStatus => aStatus'[a] = aStatus[a]]_vars

UniverseReaped(u) ==
    /\ u \notin active_universes
    /\ uStatus[u] = "terminated"
    /\ uAgents[u] \cap active_agents = {}

\* the tasks of the universe's agents have finished and every scheduled
\* completion callback has run
Quiescent(u) ==
    /\ pendingChecks[u] = 0
    /\ \A a \in uAgents[u] : TaskFinished(a)

\* the agent's task finished with status completed or error: it emitted its
\* agent_done or agent_error
FinishedTerminal(a) == doneEvents[a] + errorEvents[a] > 0

\* C6 (as claimed): once the tasks of a universe have finished and the
\* scheduled callbacks have run, a universe all of whose agents (at least
\* one) finished with status completed or error is terminated and removed
\* from active_universes, and its agents are removed from active_agents; a
\* universe with an idle or running agent is still in active_universes.
C6_ReapedWhenAllDone ==
    \A u \in Universes :
        /\ (/\ Quiescent(u)
            /\ uAgents[u] # {}
            /\ \A a \in uAgents[u] : FinishedTerminal(a)) => UniverseReaped(u)
        /\ (\E a \in uAgents[u] : aStatus[a] \in {"idle", "running"})
                => u \in active_universes

\* C7 (as claimed): once the tasks of a universe have finished and the
\* callbacks have run, a universe whose agents are all paused, completed or
\* error has status terminated.
C7_TerminatedAfterCancel ==
    \A u \in Universes :
        /\ Quiescent(u)
        /\ uAgents[u] # {}
        /\ \A a \in uAgents[u] : aStatus[a] \in {"paused", "completed", "error"}
        => uStatus[u] = "terminated"

(***************************************************************************)
(* StreamSpec: the event stream alone, fed with opaque events.             *)
(* FairStreamSpec adds what the event loop guarantees (a task that can run *)
(* does run) and a network that is not down for ever: the number of failed *)
(* sends is bounded and a connect that is tried again and again succeeds.  *)
(***************************************************************************)
StreamInit ==
    /\ WorkerStart
    /\ CrowdConfig
    /\ queue_tracked = TRUE
    /\ StreamStart
    /\ RegistryStart
    /\ FleetStart
    /\ ControlPlaneStart
    /\ LLMStart
    /\ ToolStart
    /\ DashboardStart
    /\ secret_store = {}

StreamNext == StreamStep \/ StreamCancel \/ Enqueue

StreamSpec == StreamInit /\ [][StreamNext]_vars

FairStreamSpec ==
    /\ StreamSpec
    /\ SF_vars(StreamConnect)
    /\ WF_vars(StreamWake)
    /\ WF_vars(StreamGet)
    /\ WF_vars(StreamSendOk)

RECURSIVE Dedup(_)
\* s without the repeated deliveries: the first occurrence of each frame
Dedup(s) ==
    IF s = <<>> THEN <<>>
    ELSE LET front == Dedup(SubSeq(s, 1, Len(s) - 1))
             last == s[Len(s)]
         IN  IF \E i \in 1..Len(front) : front[i] = last THEN front
             ELSE Append(front, last)

\* C1 (as claimed): ignoring repeated deliveries, the control plane has
\* received the events in the order they were put on the queue: the received
\* sequence is 1, 2, ..., k.
C1_DeliveredInOrder ==
    \A i \in 1..Len(Dedup(delivered)) : Dedup(delivered)[i] = i

InQueue(e) == \E i \in 1..Len(event_queue) : event_queue[i] = e

NoEventDiscarded ==
    stream_pc # "cancelled" =>
        \A e \in 1..enqueued : e \in sent_ok \/ InQueue(e) \/ inflight = <<e>>

\* C10: unless the stream task is cancelled, every event put on the queue is
\* on the queue, held by the sender or was sent successfully (a failed send
\* does not discard it), and it is eventually sent successfully.
C10_NoEventLost ==
    /\ []NoEventDiscarded
    /\ \A e \in 1..MaxEvents :
         (e <= enqueued) ~> (e \in sent_ok \/ stream_pc = "cancelled")

\* an event whose send failed was sent successfully later
C10_Witness ==
    \E i \in 1..Len(send_failed) : send_failed[i] \in sent_ok

(***************************************************************************)
(* RegistrySpec: the registry endpoints called in any order by any number  *)
(* of clients, token 0 standing for a token the registry never issued.     *)
(***************************************************************************)
RegistryInit ==
    /\ WorkerStart
    /\ CrowdConfig
    /\ queue_tracked = FALSE
    /\ StreamStart
    /\ RegistryStart
    /\ FleetStart
    /\ ControlPlaneStart
    /\ LLMStart
    /\ ToolStart
    /\ DashboardStart
    /\ secret_store \in {{}, {"ANTHROPIC_API_KEY"}}

RegistryNext == RegistryStep

RegistrySpec == RegistryInit /\ [][RegistryNext]_vars

\* the tokens that authenticate worker w: the lookup by hash returns w's row
AuthenticatingTokens(w) == {t \in 1..issued : w \in RowsByHash(Sha256(t))}

\* C2: the tokens issued to one worker id by its register calls are pairwise
\* different; a credential request carrying a token issued before the last
\* register gets 401, one carrying the token of the last register does not;
\* at most one token authenticates a worker, the most recently issued.
C2_OnlyLatestTokenAuthenticates ==
    \A w \in WorkerIds :
        LET s == issued_to[w]
        IN  /\ \A i, j \in 1..Len(s) : i # j => s[i] # s[j]
            /\ \A i \in 1..(Len(s) - 1), k \in KeyNames :
                    CredentialStatuses(TRUE, s[i], k) = {401}
            /\ Len(s) > 0 => \A k \in KeyNames :
                    401 \notin CredentialStatuses(TRUE, s[Len(s)], k)
            /\ AuthenticatingTokens(w) \subseteq (IF s = <<>> THEN {} ELSE {s[Len(s)]})
            /\ Cardinality(AuthenticatingTokens(w)) <= 1

\* a worker registered twice and a credential request with its first token
\* was answered 401
C2_Witness ==
    \E w \in WorkerIds :
        /\ Len(issued_to[w]) >= 2
        /\ last_response.op = "credential"
        /\ last_response.code = 401
        /\ last_response.bearer
        /\ last_response.token = issued_to[w][1]
        /\ 200 \in CredentialStatuses(TRUE, issued_to[w][Len(issued_to[w])], "ANTHROPIC_API_KEY")

(***************************************************************************)
(* ConversationSpec: the control plane receives, on one worker connection, *)
(* the frames agent_started, n iteration_detail and agent_done of one      *)
(* agent, in this order, and runs the persistence tasks they create in any *)
(* order the store may serve them.                                         *)
(***************************************************************************)
RECURSIVE DetailFrames(_)
DetailFrames(n) ==
    IF n = 0 THEN <<>>
    ELSE Append(DetailFrames(n - 1), Ev("iteration_detail", 1, 1, 1, n - 1))

AgentFrames(n) ==
    <<Ev("agent_started", 1, 1, 0, 0)>> \o DetailFrames(n)
        \o <<Ev("agent_done", 1, 1, 1, 0)>>

ConversationInit ==
    /\ WorkerStart
    /\ CrowdConfig
    /\ queue_tracked = TRUE
    /\ event_queue = <<>>
    /\ stream_pc = "waiting"
    /\ inflight = NoFrame
    /\ delivered \in {AgentFrames(n) : n \in 1..MaxDetails}
    /\ enqueued = 0
    /\ sent_ok = {}
    /\ send_failed = <<>>
    /\ RegistryStart
    /\ FleetStart
    /\ secret_store = {}
    /\ ControlPlaneStart
    /\ LLMStart
    /\ ToolStart
    /\ DashboardStart

ConversationNext == ControlPlaneStep

ConversationSpec == ConversationInit /\ [][ConversationNext]_vars

DetailCount == Len(SelectSeq(delivered, LAMBDA e : e.type = "iteration_detail"))

\* C9 (as claimed): when every frame has been handled and every persistence
\* task has finished, the store holds one conversation for the agent, with
\* status completed and total_iterations = n, and n turn rows.
C9_StoreMatchesEvents ==
    (cp_next = Len(delivered) /\ db_tasks = {}) =>
        /\ Len(conversations) = 1
        /\ conversations[1].status = "completed"
        /\ conversations[1].total_iterations = DetailCount
        /\ Len(turns) = DetailCount

(***************************************************************************)
(* PipelineSpec: one worker with one agent slot and the shortest loop, its *)
(* event stream and the control plane that receives it.                    *)
(***************************************************************************)
SoloConfig ==
    /\ max_turns = 1
    /\ max_iterations = 1
    /\ launchable = {1}

PipelineInit ==
    /\ WorkerStart
    /\ SoloConfig
    /\ queue_tracked = TRUE
    /\ StreamStart
    /\ RegistryStart
    /\ FleetStart
    /\ secret_store = {}
    /\ ControlPlaneStart
    /\ LLMStart
    /\ ToolStart
    /\ DashboardStart

PipelineNext == LoopSteps \/ StreamStep \/ ControlPlaneStep

PipelineSpec == PipelineInit /\ [][PipelineNext]_vars

\* the control plane has handled an agent_done frame of universe u
DoneProcessed(u) ==
    \E i \in 1..cp_next : delivered[i].type = "agent_done" /\ delivered[i].u = u

\* C8 (as claimed): once the control plane has handled the agent_done of a
\* universe whose single agent ran to completion, with stop_universe never
\* called, the universe cache shows the universe with status terminated.
C8_CacheTerminatedAfterDone ==
    \A u \in Universes :
        (Cardinality(uAgents[u]) = 1 /\ DoneProcessed(u) /\ universe_cache[u].exists)
            => universe_cache[u].status = "terminated"

Occurrences(s, e) == Cardinality({i \in 1..Len(s) : s[i] = e})

\* C11: an event is sent again only after a failed send of that event: an
\* event whose send returned is neither on the queue nor held by the sender
\* any more, no event is on the queue twice, and the control plane receives
\* an event at most once more than its sends failed.
C11_AtMostOneRedelivery ==
    \A e \in 1..enqueued :
        /\ Occurrences(event_queue, e) + Occurrences(inflight, e) <= 1
        /\ e \in sent_ok => Occurrences(event_queue, e) + Occurrences(inflight, e) = 0
        /\ Occurrences(delivered, e) <= Occurrences(send_failed, e) + 1
        /\ e \notin sent_ok => Occurrences(delivered, e) <= Occurrences(send_failed, e)

\* an event reached the control plane, its send failed all the same, and the
\* send after the reconnect delivered it a second time
C11_Witness ==
    \E e \in 1..enqueued :
        /\ e \in sent_ok
        /\ Occurrences(send_failed, e) = 1
        /\ Occurrences(delivered, e) = 2

(***************************************************************************)
(* Credential endpoint: the order of its checks (RegistrySpec)             *)
(***************************************************************************)
\* the worker whose row carries the hash of this bearer token, if any
TokenOwners(bearer, token) ==
    {w \in WorkerIds : bearer /\ workers[w].exists
                              /\ workers[w].auth_token_hash = Sha256(token)}

\* what the endpoint owes a request, stated from the four conditions alone
ExpectedCredentialCode(bearer, token, key_name) ==
    LET owners == TokenOwners(bearer, token)
        live == {w \in owners : workers[w].status # "offline"}
    IN  IF owners = {} THEN 401
        ELSE IF live = {} THEN 403
        ELSE IF key_name \notin AllowedCredentialKeys THEN 400
        ELSE IF key_name \notin secret_store THEN 404
        ELSE 200

\* C16: a credential request is answered 200 only if its bearer token's hash
\* matches a worker row, that worker is not offline, the key name is
\* allow-listed and the key resolves; otherwise the first failing check in
\* the order 401, 403, 400, 404 decides the answer.
C16_CredentialCheckOrder ==
    [][(last_response' # last_response /\ last_response'.op = "credential")
        => last_response'.code = ExpectedCredentialCode(last_response'.bearer,
                                                        last_response'.token,
                                                        last_response'.key_name)]_vars

\* an offline worker asking for a key that is not allow-listed was answered
C16_Witness ==
    /\ last_response.op = "credential"
    /\ last_response.bearer
    /\ last_response.key_name \notin AllowedCredentialKeys
    /\ TokenOwners(TRUE, last_response.token) # {}
    /\ \A w \in TokenOwners(TRUE, last_response.token) : workers[w].status = "offline"
    /\ last_response.code = 403

(***************************************************************************)
(* Worker status values (RegistrySpec)                                     *)
(***************************************************************************)
\* C17: after any sequence of register, heartbeat and deregister requests,
\* heartbeats with an arbitrary status string included, the status of every
\* worker row is online or offline.
C17_StatusOnlineOrOffline ==
    \A w \in WorkerIds :
        workers[w].exists => workers[w].status \in {"online", "offline"}

(***************************************************************************)
(* ReplaySpec: as ConversationSpec, but one iteration_detail frame reaches *)
(* the control plane twice: its ws.send raised after the frame had left,   *)
(* and the worker put it back on its queue (client.py:123-127).            *)
(***************************************************************************)
ReplayFrames(n, d) ==
    <<Ev("agent_started", 1, 1, 0, 0)>> \o DetailFrames(n)
        \o <<Ev("iteration_detail", 1, 1, 1, d)>>
        \o <<Ev("agent_done", 1, 1, 1, 0)>>

ReplayInit ==
    /\ WorkerStart
    /\ CrowdConfig
    /\ queue_tracked = TRUE
    /\ event_queue = <<>>
    /\ stream_pc = "waiting"
    /\ inflight = NoFrame
    /\ delivered \in {ReplayFrames(n, d) : n \in 1..MaxDetails, d \in 0..(MaxDetails - 1)}
    /\ \E i, j \in 1..Len(delivered) : i # j /\ delivered[i] = delivered[j]
    /\ enqueued = 0
    /\ sent_ok = {}
    /\ send_failed = <<>>
    /\ RegistryStart
    /\ FleetStart
    /\ secret_store = {}
    /\ ControlPlaneStart
    /\ LLMStart
    /\ ToolStart
    /\ DashboardStart

ReplayNext == ControlPlaneStep

ReplaySpec == ReplayInit /\ [][ReplayNext]_vars

\* the turn rows of conversation c
TurnRows(c) == {i \in 1..Len(turns) : turns[i].conversation_id = c}

DispatchInit ==
    /\ WorkerStart
    /\ CrowdConfig
    /\ queue_tracked = FALSE
    /\ StreamStart
    /\ RegistryStart
    /\ secret_store = {}
    /\ ControlPlaneStart
    /\ LLMStart
    /\ ToolStart
    /\ DashboardStart
    /\ FleetRest
    /\ cfg_capacity \in {[w \in WorkerIds |-> c] : c \in 1..MaxCapacity}
    /\ cfg_address = [w \in WorkerIds |-> "url"]

DispatchNext ==
    \/ \E w \in WorkerIds : RegisterBegin(w)
    \/ \E r \in registering : RegisterCommit(r)
    \/ \E w \in WorkerIds : worker_heartbeat(w, running_agents[w], "online")
    \/ \E w \in WorkerIds : deregister_worker(w)
    \/ DispatchStep

DispatchSpec == DispatchInit /\ [][DispatchNext]_vars

\* the rows a launch may go to, as the claim words it
OnlineWithCapacity ==
    {w \in WorkerIds : /\ workers[w].exists
                       /\ workers[w].status = "online"
                       /\ workers[w].current_agents < workers[w].max_concurrent_agents}

\* C13: the worker a dispatch selects is, at selection time, online with
\* current_agents < max_concurrent_agents and no such worker has a strictly
\* lower current_agents; the request is answered 503 exactly when there is no
\* such worker; a POST /launch goes only to the worker selected for its
\* request, so a request answered 503 contacts no worker.
C13_DispatchSelection ==
    [][/\ Len(dispatch_log') = Len(dispatch_log) + 1 =>
            LET e == dispatch_log'[Len(dispatch_log')]
            IN  /\ (e.code = 503) <=> (OnlineWithCapacity = {})
                /\ e.code # 503 =>
                    /\ e.worker \in OnlineWithCapacity
                    /\ \A v \in OnlineWithCapacity :
                          ~(workers[v].current_agents < workers[e.worker].current_agents)
       /\ Len(contacted') = Len(contacted) + 1 =>
            LET c == contacted'[Len(contacted')]
            IN  /\ dispatch_log[c.id].code = 0
                /\ dispatch_log[c.id].worker = c.worker]_vars

\* a launch was forwarded to the less loaded of two workers that are both
\* online with free capacity
C13_Witness ==
    /\ \E c \in 1..Len(contacted), v \in OnlineWithCapacity :
            /\ contacted[c].worker \in OnlineWithCapacity
            /\ workers[contacted[c].worker].current_agents < workers[v].current_agents

\* C14: whenever the last request the registry served is a heartbeat of
\* worker w, the row of w, as that heartbeat wrote it, has current_agents <=
\* max_concurrent_agents.
C14_LoadWithinCapacity ==
    \A w \in WorkerIds :
        (/\ last_response.op = "heartbeat"
         /\ last_response.code = 200
         /\ last_response.worker = w)
        => workers[w].current_agents <= workers[w].max_concurrent_agents

(***************************************************************************)
(* ReaperSpec: workers with or without an address register, send           *)
(* heartbeats while they are up, deregister and crash, while time passes   *)
(* and the reaper sweeps.                                                  *)
(***************************************************************************)
ReaperInit ==
    /\ WorkerStart
    /\ CrowdConfig
    /\ queue_tracked = FALSE
    /\ StreamStart
    /\ RegistryStart
    /\ secret_store = {}
    /\ ControlPlaneStart
    /\ LLMStart
    /\ ToolStart
    /\ DashboardStart
    /\ FleetRest
    /\ cfg_capacity = [w \in WorkerIds |-> 1]
    /\ cfg_address \in [WorkerIds -> {"url", "none"}]

ReaperNext ==
    \/ \E w \in WorkerIds : RegisterBegin(w)
    \/ \E r \in registering : RegisterCommit(r)
    \/ \E w \in WorkerIds : alive[w] /\ worker_heartbeat(w, 0, "online")
    \/ \E w \in WorkerIds : deregister_worker(w)
    \/ \E w \in WorkerIds : WorkerCrash(w)
    \/ Tick
    \/ ReaperStep

ReaperSpec == ReaperInit /\ [][ReaperNext]_vars

\* worker w was stale when the running sweep selected its rows
SelectedAsStale(w) ==
    /\ stale_snapshot.rows[w].exists
    /\ stale_snapshot.at - stale_snapshot.rows[w].last_heartbeat_at > StaleThreshold
    /\ stale_snapshot.rows[w].status # "offline"

\* the step is the reaper's UPDATE for the row at the head of stale_rows
ReaperUpdates == reaper_pc # "sleeping" /\ stale_rows' = Tail(stale_rows)

\* the step belongs to the reaper
ReaperActs == reaper_pc' # reaper_pc \/ sweeps' # sweeps \/ stale_rows' # stale_rows

HeartbeatInit ==
    /\ WorkerStart
    /\ CrowdConfig
    /\ queue_tracked = FALSE
    /\ StreamStart
    /\ RegistryStart
    /\ FleetStart
    /\ secret_store = {"ANTHROPIC_API_KEY"}
    /\ ControlPlaneStart
    /\ LLMStart
    /\ ToolStart
    /\ DashboardStart

HeartbeatNext ==
    \/ LoopSteps
    \/ ClientRegister
    \/ \E r \in registering : RegisterCommit(r)
    \/ fetch_credential
    \/ ShutdownSignal
    \/ HeartbeatStep

HeartbeatSpec == HeartbeatInit /\ [][HeartbeatNext]_vars

\* the step is a round of the heartbeat loop: the loop was at its test and
\* did not leave through it
HeartbeatRoundTaken == hb_pc = "check" /\ hb_pc' \notin {"check", "done"}

\* C12: every round of the heartbeat loop posts a heartbeat whose
\* current_agents is the number of agents with status running in the
\* manager's active universes at that moment.
C12_HeartbeatReportsLoad ==
    [][HeartbeatRoundTaken =>
            /\ last_response'.op = "heartbeat"
            /\ last_response'.worker = Self
            /\ workers'[Self].current_agents = RunningAgentCount]_vars

\* C18: a round of the heartbeat loop whose heartbeat is not answered 200 (a
\* 404 in particular) sends a register request before the next round, and a
\* credential request carries the token of the most recent register response.
C18_ReregisterThenNewToken ==
    [][/\ HeartbeatRoundTaken =>
            \/ /\ last_response'.op = "heartbeat"
               /\ last_response'.worker = Self
               /\ last_response'.code = 200
            \/ \E r \in registering' \ registering : r.worker_id = Self
       /\ (last_response' # last_response /\ last_response'.op = "credential")
            => last_response'.token = AuthToken]_vars

SelectFindsNothing(t) ==
    /\ t.op = "insert_turn" /\ t.pc = "select"
    /\ NewestConversation(t.u, t.a) = 0

\* the task t ends with this step
TaskEnds(t) == \A t2 \in db_tasks' : t2.id # t.id

\* C23: an iteration_detail event for which no conversation row exists is
\* dropped (its task ends without a turn row, without a new conversation and
\* without a change to any aggregate), and every turn row references an
\* existing conversation.
C23_NoOrphanTurn ==
    [][/\ \A i \in 1..Len(turns') : turns'[i].conversation_id \in 1..Len(conversations')
       /\ \A t \in db_tasks :
            (SelectFindsNothing(t) /\ t \notin db_tasks') =>
                /\ TaskEnds(t)
                /\ turns' = turns
                /\ conversations' = conversations]_vars

\* an iteration_detail event was dropped: its task (the second one created)
\* is over while the store is still empty
C23_Witness ==
    /\ spawned >= 2
    /\ delivered[2].type = "iteration_detail"
    /\ \A t \in db_tasks : t.id # 2
    /\ conversations = <<>>
    /\ turns = <<>>

(***************************************************************************)
(* RepeatSpec: the control plane receives the frames of one agent that     *)
(* runs n turns of one iteration each and ends with agent_done or          *)
(* agent_error, and one frame more: a second copy of one of the frames,    *)
(* anywhere behind the first (the worker puts a frame whose send raised    *)
(* back on its queue, behind the frames that wait there,                   *)
(* client.py:123-127), or a further terminal frame at the end.             *)
(***************************************************************************)
RECURSIVE TurnFrames(_)
TurnFrames(n) ==
    IF n = 0 THEN <<>>
    ELSE Append(TurnFrames(n - 1), Ev("iteration_detail", 1, 1, n, 0))

TerminalFrames == {Ev("agent_done", 1, 1, 1, 0), Ev("agent_error", 1, 1, 1, 0)}

RunFrames(n, last) == <<Ev("agent_started", 1, 1, 0, 0)>> \o TurnFrames(n) \o <<last>>

\* the sequence s with the frame x put in behind position j
InsertFrame(s, x, j) == SubSeq(s, 1, j) \o <<x>> \o SubSeq(s, j + 1, Len(s))

RepeatInit ==
    /\ WorkerStart
    /\ CrowdConfig
    /\ queue_tracked = TRUE
    /\ event_queue = <<>>
    /\ stream_pc = "waiting"
    /\ inflight = NoFrame
    /\ \E n \in 1..MaxDetails, last \in TerminalFrames :
          LET run == RunFrames(n, last)
          IN  \/ \E j \in 1..Len(run), k \in 1..Len(run) :
                    k <= j /\ delivered = InsertFrame(run, run[k], j)
              \/ \E x \in TerminalFrames : delivered = Append(run, x)
    /\ enqueued = 0
    /\ sent_ok = {}
    /\ send_failed = <<>>
    /\ RegistryStart
    /\ FleetStart
    /\ secret_store = {}
    /\ ControlPlaneStart
    /\ LLMStart
    /\ ToolStart
    /\ DashboardStart

RepeatNext == ControlPlaneStep

RepeatSpec == RepeatInit /\ [][RepeatNext]_vars

\* every frame has been handled and every persistence task has finished
StoreSettled == cp_next = Len(delivered) /\ db_tasks = {}

\* the frames of s without the second and later copies
RECURSIVE WithoutRepeats(_)
WithoutRepeats(s) ==
    IF s = <<>> THEN <<>>
    ELSE LET front == WithoutRepeats(SubSeq(s, 1, Len(s) - 1))
             x == s[Len(s)]
         IN  IF \E i \in 1..Len(front) : front[i] = x THEN front ELSE Append(front, x)

\* the conversation rows of the agent a of the universe u
ConversationRows(u, a) ==
    {i \in 1..Len(conversations) :
        conversations[i].universe_id = u /\ conversations[i].agent_id = a}

\* C21 (as claimed): replay is idempotent.  When the store has settled, no
\* (universe_id, agent_id) has a second conversation row, and the turn rows
\* and the totals of a conversation count every iteration_detail frame once,
\* however often it was delivered.
C21_ReplayIdempotent ==
    StoreSettled =>
        /\ \A u \in Universes, a \in Agents : Cardinality(ConversationRows(u, a)) <= 1
        /\ Len(turns) <= Len(SelectSeq(WithoutRepeats(delivered),
                                       LAMBDA e : e.type = "iteration_detail"))
        /\ \A i \in 1..Len(conversations) :
              conversations[i].total_iterations <=
                  Len(SelectSeq(WithoutRepeats(delivered),
                                LAMBDA e : e.type = "iteration_detail"))

\* C24: a conversation is closed only while it is running: a step changes
\* the status of a row only from running to completed or error, and a row
\* that is closed keeps its status and its error_message whatever
\* agent_done or agent_error arrives later.
C24_ClosedOnce ==
    [][\A i \in 1..Len(conversations) :
          /\ conversations'[i].status # conversations[i].status =>
                /\ conversations[i].status = "running"
                /\ conversations'[i].status \in {"completed", "error"}
          /\ conversations[i].status # "running" =>
                /\ conversations'[i].status = conversations[i].status
                /\ conversations'[i].error_message = conversations[i].error_message]_vars

\* agent_done and then agent_error were received and their tasks are over;
\* the conversation is closed as completed, without an error_message
C24_Witness ==
    /\ StoreSettled
    /\ delivered[Len(delivered) - 1].type = "agent_done"
    /\ delivered[Len(delivered)].type = "agent_error"
    /\ Len(conversations) = 1
    /\ conversations[1].status = "completed"
    /\ conversations[1].error_message = ""

\* the greatest turn_number among the turn rows in S (0 for none)
RECURSIVE MaxTurnNumber(_)
MaxTurnNumber(S) ==
    IF S = {} THEN 0
    ELSE LET i == CHOOSE i \in S : TRUE
         IN  Greatest(turns[i].turn_number, MaxTurnNumber(S \ {i}))

RECURSIVE SumInputTokens(_)
SumInputTokens(S) ==
    IF S = {} THEN 0
    ELSE LET i == CHOOSE i \in S : TRUE
         IN  turns[i].input_tokens + SumInputTokens(S \ {i})

RECURSIVE SumOutputTokens(_)
SumOutputTokens(S) ==
    IF S = {} THEN 0
    ELSE LET i == CHOOSE i \in S : TRUE
         IN  turns[i].output_tokens + SumOutputTokens(S \ {i})

\* C22: when every persistence task has finished, each conversation's
\* total_iterations is the number of its turn rows, total_turns the greatest
\* turn_number among them (0 without rows), and total_input_tokens and
\* total_output_tokens the sums over them, in whatever order the concurrent
\* insert_turn tasks ran.
C22_AggregatesMatchRows ==
    db_tasks = {} =>
        \A c \in 1..Len(conversations) :
            /\ conversations[c].total_iterations = Cardinality(TurnRows(c))
            /\ conversations[c].total_turns = MaxTurnNumber(TurnRows(c))
            /\ conversations[c].total_input_tokens = SumInputTokens(TurnRows(c))
            /\ conversations[c].total_output_tokens = SumOutputTokens(TurnRows(c))

\* two turns were stored, the second turn's row before the first turn's
C22_Witness ==
    /\ db_tasks = {}
    /\ Len(turns) = 2
    /\ turns[1].conversation_id = turns[2].conversation_id
    /\ turns[1].turn_number = 2
    /\ turns[2].turn_number = 1
    /\ conversations[turns[1].conversation_id].total_turns = 2
    /\ conversations[turns[1].conversation_id].total_input_tokens = 3

(***************************************************************************)
(* DashboardSpec: two worker connections deliver frames to the control     *)
(* plane while dashboard clients connect and break.  Client 1 subscribed   *)
(* before the first frame; the others connect at any time.  The frames     *)
(* start no persistence task.                                              *)
(***************************************************************************)
RECURSIVE TurnStartFrames(_, _)
TurnStartFrames(a, n) ==
    IF n = 0 THEN <<>>
    ELSE Append(TurnStartFrames(a, n - 1), Ev("turn_start", 1, a, n, 0))

DashboardInit ==
    /\ WorkerStart
    /\ CrowdConfig
    /\ queue_tracked = TRUE
    /\ event_queue = <<>>
    /\ stream_pc = "waiting"
    /\ inflight = NoFrame
    /\ delivered \in {<<Ev("universe_created", 1, 0, 0, 0)>> \o TurnStartFrames(1, n) :
                        n \in 0..(MaxTurns - 1)}
    /\ enqueued = 0
    /\ sent_ok = {}
    /\ send_failed = <<>>
    /\ RegistryStart
    /\ FleetStart
    /\ secret_store = {}
    /\ ControlPlaneStart
    /\ LLMStart
    /\ ToolStart
    /\ dashboard_ws_clients = <<1>>
    /\ ds_pc = [c \in Clients |-> IF c = 1 THEN "open" ELSE "idle"]
    /\ healthy = [c \in Clients |-> TRUE]
    /\ received = [c \in Clients |-> IF c = 1 THEN <<Snapshot>> ELSE <<>>]
    /\ bcast = [k \in Connections |-> NoBroadcast]
    /\ conn_open = [k \in Connections |-> TRUE]
    /\ peer_frames \in {TurnStartFrames(2, m) : m \in 1..MaxTurns}
    /\ peer_next = 0

DashboardNext == ReceiveEvent \/ ReceivePeerEvent \/ DashboardStep

DashboardSpec == DashboardInit /\ [][DashboardNext]_vars

\* the frames the two worker connections deliver
WorkerFrames == Members(delivered) \cup Members(peer_frames)

\* C25: the first frame on a dashboard client's socket is the snapshot, the
\* only one it gets; no worker event is put on the socket before it, also
\* while broadcasts are running at the time of the connect, and every later
\* frame is a worker event as it was delivered.
C25_SnapshotFirst ==
    \A c \in Clients :
        /\ received[c] # <<>> => received[c][1].type = "snapshot"
        /\ \A i \in 2..Len(received[c]) : received[c][i] \in WorkerFrames

\* client 2 subscribed while the first frame was being broadcast (its
\* snapshot already shows the universe of that frame), and then got the frame
C25_Witness ==
    /\ cp_next = 1
    /\ peer_next = 0
    /\ Len(received[2]) = 2
    /\ received[2][1].type = "snapshot"
    /\ received[2][1].universes = {1}
    /\ received[2][2] = delivered[1]

\* how often the frame x is in the sequence s
Count(s, x) == Len(SelectSeq(s, LAMBDA y : y = x))

\* the frames of connection k whose broadcast is over, in order
Broadcasted(k) ==
    LET frames == IF k = 1 THEN delivered ELSE peer_frames
        n == IF k = 1 THEN cp_next ELSE peer_next
    IN  SubSeq(frames, 1, IF bcast[k].active THEN n - 1 ELSE n)

\* a client that is subscribed and healthy has no frame twice, and from the
\* first frame of a connection that it got on it has every frame of that
\* connection whose broadcast is over
HealthyClientHasAll ==
    \A c \in Clients :
        (healthy[c] /\ ds_pc[c] = "open") =>
            \A k \in Connections :
                \A j \in 1..Len(Broadcasted(k)) :
                    /\ Count(received[c], Broadcasted(k)[j]) <= 1
                    /\ (\E i \in 1..(j - 1) : Count(received[c], Broadcasted(k)[i]) > 0)
                            => Count(received[c], Broadcasted(k)[j]) = 1

\* C26 (as claimed): every worker event is relayed unmodified and exactly
\* once to every dashboard client that is connected and healthy during the
\* whole broadcast, and when a broadcast ends every client whose send raised
\* is out of the client list while the healthy clients are still in it, also
\* with two worker connections broadcasting at once and clients coming and
\* going during a broadcast.
C26_BroadcastReachesAll ==
    [][/\ HealthyClientHasAll'
       /\ \A k \in Connections :
            (bcast[k].active /\ ~bcast'[k].active) =>
                /\ \A c \in Members(bcast[k].disconnected) :
                        c \notin Members(dashboard_ws_clients')
                /\ \A c \in Members(dashboard_ws_clients) :
                        healthy[c] => c \in Members(dashboard_ws_clients')]_vars

(***************************************************************************)
(* ChatSpec: up to MaxCalls calls of LLMClient.chat on one client, built   *)
(* with or without a key and with or without a credential provider,        *)
(* against an endpoint that answers every request with any status.         *)
(***************************************************************************)
ChatInit ==
    /\ WorkerStart
    /\ CrowdConfig
    /\ queue_tracked = FALSE
    /\ StreamStart
    /\ RegistryStart
    /\ FleetStart
    /\ secret_store = {}
    /\ ControlPlaneStart
    /\ DashboardStart
    /\ ToolStart
    /\ chat_pc = "idle"
    /\ attempt = 0
    /\ api_key \in {0, 1}
    /\ provider \in BOOLEAN
    /\ keys_issued = 0
    /\ requests = <<>>
    /\ calls = 0

ChatNext == ChatStep

ChatSpec == ChatInit /\ [][ChatNext]_vars

\* the key the credential provider returned last
NewestKey == keys_issued + 1

\* C27: a chat call makes at most two HTTP requests; the second only after a
\* 401 to the first and with a credential provider, and with the key that
\* was just obtained from it; a 401 to the second request, a 401 without a
\* provider and every other status outside 2xx make the call raise, without
\* another request; the call returns only after a 200.
C27_RetryOnceOn401 ==
    /\ Len(requests) <= 2
    /\ Len(requests) = 2 =>
          /\ requests[1].status = 401
          /\ provider
          /\ requests[2].key = NewestKey
          /\ requests[2].key # requests[1].key
    /\ chat_pc = "returned" => requests[Len(requests)].status = 200
    /\ (requests # <<>> /\ chat_pc \in {"key", "post"}) =>
          Len(requests) = 1 /\ requests[1].status = 401 /\ provider
    /\ (requests # <<>> /\ requests[Len(requests)].status # 200) =>
          \/ chat_pc = "raised"
          \/ Len(requests) = 1 /\ requests[1].status = 401 /\ provider

\* a call got 401, fetched a new key, and its second request was answered
\* 401 again: the call raised after two requests
C27_Witness ==
    /\ chat_pc = "raised"
    /\ Len(requests) = 2
    /\ requests[1].status = 401
    /\ requests[2].status = 401
    /\ requests[1].key = 1
    /\ requests[2].key = NewestKey

\* the LLM call the agent a is suspended in raises with this step
LLMRaised(a) == task[a] = "llm" /\ ~must_cancel[a] /\ aStatus'[a] = "error"

\* C28: when an LLM call raises, in whatever turn, run_agent sets the agent's
\* status to error and emits exactly one agent_error and no agent_done; the
\* failed turn gets no turn_end (state_version, which is raised right before
\* every turn_end, stays), and no other agent's status or events change.
C28_LLMFailure ==
    [][\A a \in Agents :
          LLMRaised(a) =>
              /\ task'[a] = "done"
              /\ errorEvents'[a] = errorEvents[a] + 1
              /\ errorEvents'[a] = 1
              /\ doneEvents'[a] = 0
              /\ state_version' = state_version
              /\ current_turn'[a] = current_turn[a]
              /\ \A b \in Agents \ {a} :
                    /\ aStatus'[b] = aStatus[b]
                    /\ errorEvents'[b] = errorEvents[b]
                    /\ doneEvents'[b] = doneEvents[b]]_vars

\* the LLM call of one agent raised while another agent was running
C28_Witness ==
    \E a, b \in Agents :
        /\ a # b
        /\ aStatus[a] = "error" /\ errorEvents[a] = 1 /\ doneEvents[a] = 0
        /\ aStatus[b] = "running"

(***************************************************************************)
(* ToolSpec: one agent that runs one turn, with an LLM that asks for one    *)
(* tool call, any of ToolCalls, every time it asks for a tool.             *)
(***************************************************************************)
ToolInit ==
    /\ WorkerStart
    /\ max_turns = 1
    /\ max_iterations \in 1..MaxIters
    /\ launchable = {1}
    /\ queue_tracked = TRUE
    /\ StreamStart
    /\ RegistryStart
    /\ FleetStart
    /\ secret_store = {}
    /\ ControlPlaneStart
    /\ DashboardStart
    /\ LLMStart
    /\ tool_calls \in {{call} : call \in ToolCalls}
    /\ tool_input = <<>>
    /\ tool_result = ""
    /\ accessed = {}

ToolNext == LoopSteps

ToolSpec == ToolInit /\ [][ToolNext]_vars

\* the tool the agent a is suspended in ends with this step
ToolStepTaken(a) == task[a] = "tool" /\ ~must_cancel[a] /\ toolsLeft'[a] < toolsLeft[a]

\* C29: whatever a tool call does (unknown tool, missing file, blocked path,
\* time-out, exit code, exception in the tool, failed create_task request),
\* its result is a string that goes into tool_result; nothing is raised into
\* the agent loop, the agent stays running and emits no agent_error, and the
\* inner loop goes on: after the last tool of an iteration comes the next LLM
\* call, as long as range(max_iterations) has one.
C29_ToolFailureIsResult ==
    [][\A a \in Agents :
          ToolStepTaken(a) =>
              /\ tool_result' # ""
              /\ aStatus[a] = "running" /\ aStatus'[a] \in {"running", "completed"}
              /\ errorEvents' = errorEvents
              /\ (toolsLeft'[a] = 0 /\ iteration[a] + 1 < max_iterations) =>
                    /\ task'[a] = "llm"
                    /\ iteration'[a] = iteration[a] + 1
                    /\ aStatus'[a] = "running"]_vars

\* a tool call failed with an exception inside the tool, and the agent is in
\* the next LLM call of the same turn
C29_Witness ==
    \E a \in Agents :
        /\ tool_result = "Error executing tool"
        /\ aStatus[a] = "running"
        /\ task[a] = "llm"
        /\ iteration[a] = 1
        /\ errorEvents[a] = 0

\* the tool call executed last is a file tool of a worktree
FileToolCall ==
    /\ tool_input # <<>>
    /\ tool_input[1].tools = "worktree"
    /\ tool_input[1].name \in {"read_file", "write_file", "list_files"}

\* C30 (as claimed): read_file, write_file and list_files touch only paths
\* inside the worktree root; a path that resolves outside of it (through
\* "..", as an absolute path, or into a sibling directory whose name begins
\* with the root's name) gets the result "Error: Path traversal blocked" and
\* nothing is read or written.
C30_PathInsideWorktree ==
    FileToolCall =>
        /\ \A p \in accessed : InsideRoot(p)
        /\ ~InsideRoot(Resolve(tool_input[1].path)) =>
              /\ tool_result = "Error: Path traversal blocked"
              /\ accessed = {}

(***************************************************************************)
(* Claims about the bounds of the agent loop.  FairLoopSpec is LoopSpec    *)
(* with an event loop that resumes every task whose awaited call is over:  *)
(* each LLM or tool call the agent waits for ends (it returns or raises),  *)
(* and a requested cancellation is delivered.                              *)
(***************************************************************************)
FairLoopSpec == LoopSpec /\ \A a \in Agents : WF_vars(AgentStep(a))

\* positions of the turn_start events of a sequence of events
TurnStarts(s) == {j \in 1..Len(s) : s[j].type = "turn_start"}

\* the llm_response events of the turn opened at position j
ResponsesOfTurn(s, j) ==
    {i \in (j + 1)..Len(s) :
        /\ s[i].type = "llm_response"
        /\ \A k \in TurnStarts(s) : ~(j < k /\ k < i)}

\* the LLM calls the agent a has made in the turn opened at position j of its
\* events: the ones that returned, and the one it is waiting for
LLMCalls(a, j) ==
    LET s == AgentEvents(a)
    IN  Cardinality(ResponsesOfTurn(s, j))
           + (IF task[a] = "llm" /\ \A k \in TurnStarts(s) : k <= j THEN 1 ELSE 0)

TaskRunning(a) == task[a] \in {"pending", "llm", "tool"}

\* C31: an agent starts at most max_turns turns and makes at most
\* max_iterations LLM calls in each of them, and its task, once created,
\* always ends; when it ends without a cancellation the agent's status is
\* completed or error.
C31_BoundedLoops ==
    /\ [](\A a \in Agents :
            /\ Cardinality(TurnStarts(AgentEvents(a))) <= max_turns
            /\ current_turn[a] <= max_turns
            /\ \A j \in TurnStarts(AgentEvents(a)) : LLMCalls(a, j) <= max_iterations)
    /\ \A a \in Agents : TaskRunning(a) ~> ~TaskRunning(a)
    /\ [][\A a \in Agents :
            TaskRunning(a) /\ ~must_cancel[a] /\ task'[a] \notin {"pending", "llm", "tool"}
                => task'[a] = "done" /\ aStatus'[a] \in TerminalStatus]_vars

\* an agent that was never cancelled ran max_turns turns of max_iterations
\* LLM calls each, the largest loops of the model, and completed
C31_Witness ==
    \E a \in Agents :
        /\ max_turns = MaxTurns /\ max_iterations = MaxIters
        /\ task[a] = "done" /\ aStatus[a] = "completed"
        /\ Cardinality(TurnStarts(AgentEvents(a))) = MaxTurns
        /\ \A j \in TurnStarts(AgentEvents(a)) : LLMCalls(a, j) = MaxIters

\* every LLM response in s asked for tools and had them run: stop_reason
\* tool_use with a tool_use block, so that a tool_call follows the response
AlwaysToolUse(s) ==
    \A i \in 1..Len(s) :
        s[i].type = "llm_response" => i < Len(s) /\ s[i + 1].type = "tool_call"

\* the early-completion check (agent_loop.py:397-413) as the events show it
EarlyCompletion(s) ==
    \A i \in 1..Len(s) :
        s[i].type = "turn_end" =>
            /\ i < Len(s)
            /\ s[i - 1].type = "iteration_detail"
            /\ ~s[i - 1].tool_use => s[i + 1].type = "agent_done"
            /\ s[i - 1].tool_use /\ s[i].turn < max_turns => s[i + 1].type = "turn_start"
            /\ s[i].turn >= max_turns => s[i + 1].type = "agent_done"

\* C32: a turn whose last assistant message has no tool_use block is the
\* agent's last turn and agent_done follows its turn_end; a turn that ends
\* with a tool_use block is followed by the next turn while turns are left;
\* an agent all of whose responses asked for tools ends only after max_turns
\* turns of max_iterations LLM calls each; and the step that ends the last
\* turn marks the agent completed, never error.
C32_EarlyCompletion ==
    /\ [](\A a \in Agents :
            LET s == AgentEvents(a)
            IN  /\ EarlyCompletion(s)
                /\ Len(s) > 0 /\ s[Len(s)].type = "agent_done" /\ AlwaysToolUse(s)
                      => /\ Cardinality(TurnStarts(s)) = max_turns
                         /\ \A j \in TurnStarts(s) :
                               Cardinality(ResponsesOfTurn(s, j)) = max_iterations)
    /\ [][\A a \in Agents :
            (/\ aUniverse[a] # 0 /\ task[a] \in {"llm", "tool"} /\ task'[a] = "done"
             /\ state_version'[aUniverse[a]] > state_version[aUniverse[a]])
                => aStatus'[a] = "completed" /\ doneEvents'[a] = doneEvents[a] + 1
                   /\ errorEvents'[a] = errorEvents[a]]_vars

\* an agent whose every response asked for tools ran out of iterations in
\* each of max_turns turns and completed
C32_Witness ==
    \E a \in Agents :
        LET s == AgentEvents(a)
        IN  /\ Len(s) > 0 /\ s[Len(s)].type = "agent_done" /\ aStatus[a] = "completed"
            /\ max_turns = MaxTurns /\ max_iterations = MaxIters
            /\ AlwaysToolUse(s)
            /\ Cardinality(TurnStarts(s)) = MaxTurns

(***************************************************************************)
(* VersionSpec: up to MaxAgents agents side by side in one universe, each  *)
(* with up to MaxTurns turns of one iteration, the queue kept in full.     *)
(***************************************************************************)
VersionInit ==
    /\ WorkerStart
    /\ max_turns \in 1..MaxTurns
    /\ max_iterations = 1
    /\ launchable = Agents
    /\ queue_tracked = TRUE
    /\ StreamStart
    /\ RegistryStart
    /\ FleetStart
    /\ ControlPlaneStart
    /\ LLMStart
    /\ ToolStart
    /\ DashboardStart
    /\ secret_store = {}

VersionNext == LoopSteps

VersionSpec == VersionInit /\ [][VersionNext]_vars

\* the turn_end events of the universe u on the queue, in emission order
TurnEnds(u) == SelectSeq(event_queue, LAMBDA e : e.type = "turn_end" /\ e.u = u)

\* C33: the turn_end events of a universe carry the state versions 1, 2, 3,
\* ... in emission order, the universe's state_version is the number of its
\* turn_end events (0 at the start), and a step changes it only by adding 1
\* together with one turn_end.
C33_VersionsIncrease ==
    /\ [](\A u \in Universes :
            /\ state_version[u] = Len(TurnEnds(u))
            /\ \A i \in 1..Len(TurnEnds(u)) : TurnEnds(u)[i].state_version = i)
    /\ [][\A u \in Universes :
            state_version'[u] # state_version[u] =>
                /\ state_version'[u] = state_version[u] + 1
                /\ Len(TurnEnds(u)') = Len(TurnEnds(u)) + 1]_vars

\* two agents of one universe ended turns alternately: versions 1, 2, 3
C33_Witness ==
    \E u \in Universes :
        LET s == TurnEnds(u)
        IN  /\ Len(s) >= 3
            /\ s[1].a # s[2].a /\ s[2].a # s[3].a
            /\ s[3].state_version = 3

(***************************************************************************)
(* StopSpec: up to MaxAgents agents with the shortest loop, the queue kept *)
(* in full, and up to MaxStops universe_stopped events from stop_universe  *)
(* and stop_all.                                                           *)
(***************************************************************************)
StopInit ==
    /\ WorkerStart
    /\ CrowdConfig
    /\ queue_tracked = TRUE
    /\ StreamStart
    /\ RegistryStart
    /\ FleetStart
    /\ ControlPlaneStart
    /\ LLMStart
    /\ ToolStart
    /\ DashboardStart
    /\ secret_store = {}

\* the universe_stopped events of the universe u on the queue
StoppedCount(u) ==
    Len(SelectSeq(event_queue, LAMBDA e : e.type = "universe_stopped" /\ e.u = u))

StopsLeft == \A u \in Universes : StoppedCount(u) < MaxStops

StopNext ==
    \/ \E a \in Agents : AgentStep(a)
    \/ \E u \in Universes, n \in 0..MaxAgents : launch_universe(u, n)
    \/ \E u \in Universes : launch_agent(u)
    \/ \E u \in Universes : check_universe_completion(u)
    \/ \E u \in Universes : StopsLeft /\ stop_universe(u)
    \/ StopsLeft /\ stop_all

StopSpec == StopInit /\ [][StopNext]_vars

\* C34: a step that puts a universe_stopped event of u on the queue (a call of
\* stop_universe(u), directly or from stop_all) happens only for a universe
\* of the active set, puts exactly one such event, sets the universe
\* terminated, requests the cancellation of exactly the agents of u whose
\* task is not finished and marks exactly those paused, and leaves the
\* agents of the universes not stopped in this step and every task as they are.
C34_StopUniverse ==
    [][\A u \in Universes :
        StoppedCount(u)' # StoppedCount(u) =>
            /\ u \in active_universes
            /\ StoppedCount(u)' = StoppedCount(u) + 1
            /\ Len(event_queue') = Len(event_queue) + Cardinality(active_universes)
                  \/ Len(event_queue') = Len(event_queue) + 1
            /\ uStatus'[u] = "terminated"
            /\ \A a \in uAgents[u] :
                  IF TaskFinished(a)
                  THEN aStatus'[a] = aStatus[a] /\ must_cancel'[a] = must_cancel[a]
                  ELSE aStatus'[a] = "paused" /\ must_cancel'[a]
            /\ \A a \in Agents :
                  (aUniverse[a] = 0 \/ StoppedCount(aUniverse[a])' = StoppedCount(aUniverse[a])) =>
                      aStatus'[a] = aStatus[a] /\ must_cancel'[a] = must_cancel[a]
            /\ task' = task /\ uAgents' = uAgents]_vars

\* stop_universe hit a universe with one finished and one running agent:
\* the first kept completed, the second is paused with its cancellation
\* requested or delivered
C34_Witness ==
    \E u \in Universes, a, b \in Agents :
        /\ StoppedCount(u) = 1 /\ uStatus[u] = "terminated"
        /\ aUniverse[a] = u /\ aUniverse[b] = u
        /\ aStatus[a] = "completed" /\ task[a] = "done"
        /\ aStatus[b] = "paused" /\ (must_cancel[b] \/ task[b] = "cancelled")

\* in the sequence h of events every event of an agent comes after the
\* universe_created event of the agent's universe
CreatedBeforeAgents(h) ==
    \A i \in 1..Len(h) :
        h[i].a # 0 => \E j \in 1..(i - 1) : h[j].type = "universe_created" /\ h[j].u = h[i].u

\* C35: on the event queue, which here keeps every event ever put, the
\* universe_created event of a universe comes before every event of every
\* agent of that universe, and each created universe has exactly one.
C35_CreatedFirst ==
    /\ CreatedBeforeAgents(event_queue)
    /\ \A u \in Universes :
          uStatus[u] # "none" =>
              Cardinality({i \in 1..Len(event_queue) :
                  event_queue[i].type = "universe_created" /\ event_queue[i].u = u}) = 1

\* the queue starts with universe_created and holds events of two agents of
\* that universe after it
C35_Witness ==
    /\ Len(event_queue) >= 3
    /\ event_queue[1].type = "universe_created"
    /\ \E i, j \in 2..Len(event_queue) :
          /\ event_queue[i].type = "agent_started" /\ event_queue[j].type = "agent_started"
          /\ event_queue[i].a # event_queue[j].a
          /\ event_queue[i].u = event_queue[1].u /\ event_queue[j].u = event_queue[1].u

\* C36 (as claimed): when the reaper writes status offline to a worker's row,
\* the row's last_heartbeat_at is older than the stale threshold at the
\* moment of the write.
C36_NoOfflineAfterHeartbeat ==
    [][(ReaperUpdates /\ workers'[Head(stale_rows).id].status = "offline"
            /\ workers' # [workers EXCEPT ![Head(stale_rows).id].last_heartbeat_at = now])
          => workers[Head(stale_rows).id].last_heartbeat_at < now - StaleThreshold]_vars

\* C37 (as claimed): a row whose status is offline leaves that status only in
\* the step that commits a register for its worker id.
C37_OfflineUntilRegister ==
    [][\A w \in WorkerIds :
        (workers[w].exists /\ workers[w].status = "offline"
            /\ workers'[w].status # "offline")
          => issued_to'[w] # issued_to[w]]_vars

\* C39 (as claimed): every agent with status running belongs to a universe
\* whose status is active.
C39_NoAgentInTerminatedUniverse ==
    \A a \in Agents : aStatus[a] = "running" => uStatus[aUniverse[a]] = "active"

\* C40 (as claimed): every broadcast_to_dashboard call of a worker connection
\* ends without raising, so that the connection's handler stays in its
\* receive loop, whatever dashboard clients fail or disconnect meanwhile.
C40_HandlerSurvivesBroadcast ==
    [][\A k \in Connections :
        (bcast[k].active /\ ~bcast'[k].active) => conn_open'[k]]_vars
====
